---- MODULE Spec2Model ----
(***************************************************************************)
(* The graph runtime of LabSound: AudioNode (src/Modules/webaudio/         *)
(* AudioNode.cpp) with its two reference counts, connect / disconnect,     *)
(* the deferred finishDeref of the audio thread, the deletion list, and    *)
(* the pull-based rendering of one quantum (processIfNecessary).           *)
(*                                                                         *)
(* AudioNodeInput, AudioNodeOutput, AudioParam, AudioBus and AudioContext  *)
(* are not among the source files; what AudioNode.cpp calls on them is     *)
(* modelled from the specification (sections 3, 4.2-4.5) and from the      *)
(* comments of AudioNode.cpp that describe them.                           *)
(*                                                                         *)
(* Every behaviour is one of a live context: the operations assert         *)
(* !context().expired().                                                   *)
(***************************************************************************)
EXTENDS Integers, Sequences, FiniteSets, TLC

(***************************************************************************)
(* Bounds of the model.                                                    *)
(***************************************************************************)
\* no reference count is taken beyond this value
MaxRef == 2
\* no connect succeeds once AudioContext::connectionCount() has this value
MaxConnectionCount == 3
\* no quantum is rendered once this many have been
MaxQuanta == 3
\* render quanta per second: sampleRate / framesToProcess
QuantaPerSecond == 2
\* latencyTime() + tailTime() of a delay node, in render quanta
DelayTailQuanta == 1

(***************************************************************************)
(* The nodes of the context: a source, an effect (a plain processor or a   *)
(* delay, fixed at construction) and the destination.  ForeignNode is a    *)
(* node of another context and NullNode the null pointer; both appear      *)
(* only as arguments of connect.                                           *)
(***************************************************************************)
SourceNode == "source"
EffectNode == "effect"
DestinationNode == "destination"
Nodes == {SourceNode, EffectNode, DestinationNode}
NullNode == "null"
ForeignNode == "foreign"

\* the AudioParam arguments of connect(AudioParam*, ...): one param of this
\* context, one of another context, and the null pointer
OwnParam == "param"
ForeignParam == "foreignParam"
NullParam == "nullParam"
Params == {OwnParam, ForeignParam, NullParam}

\* the argument values tried for outputIndex and inputIndex
Indices == {0, 1}

NodeTypes == {"NodeTypeAudioBufferSource", "NodeTypeUnknown", "NodeTypeDelay", "NodeTypeConvolver", "NodeTypePanner", "NodeTypeDestination"}

RefTypes == {"RefTypeNormal", "RefTypeConnection"}

VARIABLES
    \* AudioNode members
    m_nodeType,              \* node -> NodeType
    m_isInitialized,         \* node -> BOOLEAN
    m_normalRefCount,        \* node -> Int
    m_connectionRefCount,    \* node -> Int
    m_isMarkedForDeletion,   \* node -> BOOLEAN
    m_isDisabled,            \* node -> BOOLEAN
    \* AudioNodeOutput / AudioNodeInput / AudioParam
    outputEnabled,           \* node -> BOOLEAN: the enabled flag of the node's outputs
    connections,             \* set of <<node, outputIndex, destination, inputIndex>>
    disabledConnections,     \* the connections severed from the rendering set
    paramConnections,        \* set of <<node, outputIndex, param>>
    \* AudioContext
    m_connectionCount,       \* AudioContext::connectionCount()
    nodesToDelete,           \* the deletion list, a sequence of nodes
    deferredFinishDerefList, \* the deferred-deref queue, a sequence of nodes
    liveNodes,               \* the nodes not yet freed
    graphOwner,              \* "none" or "main": who holds the graph lock between steps
    playingNodes,            \* nodes on which the audio thread holds a connection ref
    \* the ExceptionCode that the last connect or disconnect left in ec
    ec,
    \* the last call of connect or disconnect and its arguments, recorded in
    \* SpecConnect and SpecDisconnect
    lastCall,
    \* the graph before and after the last successful connect from an output
    \* that had no connection, recorded in SpecDisconnect
    roundTrip,
    \* rendering; times are counted in render quanta
    currentSampleFrame,      \* AudioContext::currentSampleFrame() / framesToProcess
    m_lastProcessingTime,    \* node -> time
    m_lastNonSilentTime,     \* node -> time
    outputSilent,            \* node -> BOOLEAN: the silent flag of the bus of the node's output
    \* what the last rendered quantum did, and the history of the inputs
    pulls,                   \* node -> number of calls of processIfNecessary
    processCalls,            \* node -> number of calls of process()
    silentQuanta,            \* node -> number of consecutive quanta, up to the last one,
                             \* in which the node ran with silent inputs
    \* how far the host is in the chain scenario, recorded in SpecSweep
    sweepScenario,
    \* PannerNode members; the vectors are triples of integers
    pannerIsInitialized,     \* isInitialized() of the panner node
    m_panningModel,          \* the stored panning model
    m_panner,                \* the panner strategy: 0 for none, else the number of the
                             \* Panner::create call that made it
    m_distanceModel,         \* the model of m_distanceEffect
    m_position,
    m_velocity,
    pannersCreated,          \* the number of calls of Panner::create
    \* AudioListener
    listenerPosition,
    listenerVelocity,
    dopplerFactor,
    speedOfSound,
    \* the last call of a setter of the panner and its argument, recorded in
    \* SpecPanner, and the panner as that call found it
    pannerCall,
    \* the value the last call of dopplerRate returned, recorded in SpecDoppler
    dopplerShift,
    \* the upstream walk of the panner node
    pannerConnectionCount,   \* PannerNode::m_connectionCount: the connection count of
                             \* the context that the panner saw last
    walkStack,               \* the calls of notifyAudioSourcesConnectedToNode that have
                             \* not returned, the innermost last
    pannerSources            \* the source nodes that were given setPannerNode(this)

graphVars == <<m_normalRefCount, m_connectionRefCount, m_isMarkedForDeletion, m_isDisabled, outputEnabled, connections, disabledConnections, paramConnections, m_connectionCount, nodesToDelete, deferredFinishDerefList, liveNodes, playingNodes>>

renderVars == <<currentSampleFrame, m_lastProcessingTime, m_lastNonSilentTime, outputSilent, pulls, processCalls, silentQuanta>>

\* what the specifications record about the calls of the host
history == <<lastCall, roundTrip, sweepScenario>>

\* the panner node and the listener
pannerVars == <<pannerIsInitialized, m_panningModel, m_panner, m_distanceModel, m_position, m_velocity, pannersCreated, listenerPosition, listenerVelocity, dopplerFactor, speedOfSound, pannerCall, dopplerShift, pannerConnectionCount, walkStack, pannerSources>>

vars == <<m_nodeType, m_isInitialized, graphVars, graphOwner, ec, history, renderVars, pannerVars>>

(***************************************************************************)
(* The ports of a node, by node type: what the constructors of the node    *)
(* classes pass to addInput / addOutput.                                   *)
(***************************************************************************)
InputsOfType(type) ==
    IF type = "NodeTypeAudioBufferSource" THEN 0 ELSE 1

OutputsOfType(type) ==
    IF type = "NodeTypeDestination" THEN 0 ELSE 1

\* AudioNode::numberOfInputs(): m_inputs.size().  The foreign node has one input.
numberOfInputs(n) ==
    IF n = ForeignNode THEN 1 ELSE InputsOfType(m_nodeType[n])

\* AudioNode::numberOfOutputs(): m_outputs.size()
numberOfOutputs(n) ==
    OutputsOfType(m_nodeType[n])

(***************************************************************************)
(* The graph as one value, so that the recursive operations (a deref that  *)
(* disconnects, which derefs, ...) can pass it along.                      *)
(***************************************************************************)
Graph ==
    [ normal   |-> m_normalRefCount,
      conn     |-> m_connectionRefCount,
      marked   |-> m_isMarkedForDeletion,
      disabled |-> m_isDisabled,
      enabled  |-> outputEnabled,
      edges    |-> connections,
      severed  |-> disabledConnections,
      pedges   |-> paramConnections,
      count    |-> m_connectionCount,
      toDelete |-> nodesToDelete,
      deferred |-> deferredFinishDerefList,
      live     |-> liveNodes,
      playing  |-> playingNodes ]

\* the next state of the graph variables is g
Install(g) ==
    /\ m_normalRefCount' = g.normal
    /\ m_connectionRefCount' = g.conn
    /\ m_isMarkedForDeletion' = g.marked
    /\ m_isDisabled' = g.disabled
    /\ outputEnabled' = g.enabled
    /\ connections' = g.edges
    /\ disabledConnections' = g.severed
    /\ paramConnections' = g.pedges
    /\ m_connectionCount' = g.count
    /\ nodesToDelete' = g.toDelete
    /\ deferredFinishDerefList' = g.deferred
    /\ liveNodes' = g.live
    /\ playingNodes' = g.playing

\* the connections that leave output o of node n
EdgesFrom(g, n, o) == {c \in g.edges : c[1] = n /\ c[2] = o}

\* the connections that enter node n
EdgesInto(g, n) == {c \in g.edges : c[3] = n}

\* the rendering connections: connected and not severed by a disable
RenderingEdges(g) == g.edges \ g.severed

\* the tail-sensitive node types that disableOutputsIfNecessary spares
IsTailSensitive(type) ==
    type = "NodeTypeConvolver" \/ type = "NodeTypeDelay"

RECURSIVE disableOutputsIfNecessary(_, _)
RECURSIVE outputDisable(_, _, _)
RECURSIVE finishDeref(_, _, _)
RECURSIVE disconnectAll(_, _, _)

(***************************************************************************)
(* AudioNodeOutput::disable(): every connection of the output leaves the   *)
(* rendering set of its input; AudioNodeInput::disable() then calls        *)
(* disableOutputsIfNecessary on its own node ("the case of 1" of the       *)
(* comment in AudioNode::disableOutputsIfNecessary).                       *)
(***************************************************************************)
outputDisable(g, n, o) ==
    LET active == EdgesFrom(g, n, o) \ g.severed IN
    IF active = {} THEN [g EXCEPT !.enabled[n] = FALSE]
    ELSE LET c == CHOOSE x \in active : TRUE
             g1 == [g EXCEPT !.severed = @ \cup {c}]
         IN outputDisable(disableOutputsIfNecessary(g1, c[3]), n, o)

\* AudioNodeOutput::enable(): the connections of the output are wired back
\* into the rendering sets of their inputs
outputEnable(g, n, o) ==
    [g EXCEPT !.severed = @ \ EdgesFrom(g, n, o), !.enabled[n] = TRUE]

\* enableOutputsIfNecessary that leaves a disabled node disabled
enableOutputsIfNecessary_Never(g, n) ==
    g

\* enableOutputsIfNecessary that clears the flag and leaves the outputs
\* disabled
enableOutputsIfNecessary_FlagOnly(g, n) ==
    IF g.disabled[n] /\ g.conn[n] > 0
    THEN [g EXCEPT !.disabled[n] = FALSE]
    ELSE g

\* AudioNode::enableOutputsIfNecessary
enableOutputsIfNecessary(g, n) ==
    IF g.disabled[n] /\ g.conn[n] > 0
    THEN LET g1 == [g EXCEPT !.disabled[n] = FALSE] IN
         IF numberOfOutputs(n) > 0 THEN outputEnable(g1, n, 0) ELSE g1
    ELSE g

\* disableOutputsIfNecessary without the exemption of the nodes with a tail
disableOutputsIfNecessary_NoTail(g, n) ==
    IF g.conn[n] <= 1 /\ ~g.disabled[n]
    THEN LET g1 == [g EXCEPT !.disabled[n] = TRUE] IN
         IF numberOfOutputs(n) > 0 THEN outputDisable(g1, n, 0) ELSE g1
    ELSE g

\* AudioNode::disableOutputsIfNecessary
disableOutputsIfNecessary(g, n) ==
    IF g.conn[n] <= 1 /\ ~g.disabled[n]
    THEN IF ~IsTailSensitive(m_nodeType[n])
         THEN LET g1 == [g EXCEPT !.disabled[n] = TRUE] IN
              IF numberOfOutputs(n) > 0 THEN outputDisable(g1, n, 0) ELSE g1
         ELSE g
    ELSE g

\* ref that counts every reference as a normal one
ref_CountsNormal(g, n, refType) ==
    [g EXCEPT !.normal[n] = @ + 1]

\* AudioNode::ref
ref(g, n, refType) ==
    IF refType = "RefTypeNormal"
    THEN [g EXCEPT !.normal[n] = @ + 1]
    ELSE enableOutputsIfNecessary([g EXCEPT !.conn[n] = @ + 1], n)

\* AudioContext::markForDeletion: the node joins the deletion list
markForDeletion(g, n) ==
    [g EXCEPT !.toDelete = Append(@, n)]

(***************************************************************************)
(* AudioNodeOutput::disconnectAll(): every connection of the output is     *)
(* removed, AudioNodeInput::disconnect derefs the node of the input (the   *)
(* caller holds the graph lock, so that deref is its finishDeref), and     *)
(* the output leaves the params it drives.                                 *)
(***************************************************************************)
disconnectAll(g, n, o) ==
    LET out == EdgesFrom(g, n, o) IN
    IF out = {} THEN [g EXCEPT !.pedges = {p \in @ : ~(p[1] = n /\ p[2] = o)}]
    ELSE LET c == CHOOSE x \in out : TRUE
             g1 == [g EXCEPT !.edges = @ \ {c}, !.severed = @ \ {c}]
         IN disconnectAll(finishDeref(g1, c[3], "RefTypeConnection"), n, o)

\* finishDeref that lets a node go when its last connection goes, whatever
\* handles the host still holds
finishDeref_IgnoresNormalRefs(g, n, refType) ==
    LET g1 == IF refType = "RefTypeNormal"
              THEN [g EXCEPT !.normal[n] = @ - 1]
              ELSE [g EXCEPT !.conn[n] = @ - 1]
    IN
    IF g1.conn[n] = 0 /\ ~g1.marked[n]
    THEN LET g2 == IF numberOfOutputs(n) > 0 THEN disconnectAll(g1, n, 0) ELSE g1
             g3 == markForDeletion(g2, n)
         IN [g3 EXCEPT !.marked[n] = TRUE]
    ELSE g1

\* finishDeref that marks the node for deletion and leaves its outputs
\* connected
finishDeref_LeavesOutputs(g, n, refType) ==
    LET g1 == IF refType = "RefTypeNormal"
              THEN [g EXCEPT !.normal[n] = @ - 1]
              ELSE [g EXCEPT !.conn[n] = @ - 1]
    IN
    IF g1.conn[n] = 0
    THEN IF g1.normal[n] = 0
         THEN IF ~g1.marked[n]
              THEN [markForDeletion(g1, n) EXCEPT !.marked[n] = TRUE]
              ELSE g1
         ELSE IF refType = "RefTypeConnection"
              THEN disableOutputsIfNecessary(g1, n)
              ELSE g1
    ELSE g1

\* finishDeref that disables the outputs whatever the type of the ref that
\* was dropped
finishDeref_DisablesOnAnyRef(g, n, refType) ==
    LET g1 == IF refType = "RefTypeNormal"
              THEN [g EXCEPT !.normal[n] = @ - 1]
              ELSE [g EXCEPT !.conn[n] = @ - 1]
    IN
    IF g1.conn[n] = 0
    THEN IF g1.normal[n] = 0
         THEN IF ~g1.marked[n]
              THEN LET g2 == IF numberOfOutputs(n) > 0 THEN disconnectAll(g1, n, 0) ELSE g1
                       g3 == markForDeletion(g2, n)
                   IN [g3 EXCEPT !.marked[n] = TRUE]
              ELSE g1
         ELSE disableOutputsIfNecessary(g1, n)
    ELSE g1

\* AudioNode::finishDeref, the context not shutting down
finishDeref(g, n, refType) ==
    LET g1 == IF refType = "RefTypeNormal"
              THEN [g EXCEPT !.normal[n] = @ - 1]
              ELSE [g EXCEPT !.conn[n] = @ - 1]
    IN
    IF g1.conn[n] = 0
    THEN IF g1.normal[n] = 0
         THEN IF ~g1.marked[n]
              THEN LET g2 == IF numberOfOutputs(n) > 0 THEN disconnectAll(g1, n, 0) ELSE g1
                       g3 == markForDeletion(g2, n)
                   IN [g3 EXCEPT !.marked[n] = TRUE]
              ELSE g1
         ELSE IF refType = "RefTypeConnection"
              THEN disableOutputsIfNecessary(g1, n)
              ELSE g1
    ELSE g1

\* AudioNodeInput::connect: the cross-reference is registered and the node
\* of the input takes a connection ref
inputConnect(g, destination, inputIndex, n, outputIndex) ==
    ref([g EXCEPT !.edges = @ \cup {<<n, outputIndex, destination, inputIndex>>}], destination, "RefTypeConnection")

\* AudioParam::connect: the output is registered with the param
paramConnect(g, param, n, outputIndex) ==
    [g EXCEPT !.pedges = @ \cup {<<n, outputIndex, param>>}]

\* AudioContext::incrementConnectionCount
incrementConnectionCount(g) ==
    [g EXCEPT !.count = @ + 1]

(***************************************************************************)
(* The code that AudioNode::connect(AudioNode*, ...) leaves in ec, by its  *)
(* checks in their order.                                                  *)
(***************************************************************************)
\* connect that compares the contexts before it looks at the indices
connectEc_ContextFirst(n, destination, outputIndex, inputIndex) ==
    IF destination = NullNode THEN "SYNTAX_ERR"
    ELSE IF destination = ForeignNode THEN "SYNTAX_ERR"
    ELSE IF outputIndex >= numberOfOutputs(n) THEN "INDEX_SIZE_ERR"
    ELSE IF inputIndex >= numberOfInputs(destination) THEN "INDEX_SIZE_ERR"
    ELSE "OK"

connectEc(n, destination, outputIndex, inputIndex) ==
    IF destination = NullNode THEN "SYNTAX_ERR"
    ELSE IF outputIndex >= numberOfOutputs(n) THEN "INDEX_SIZE_ERR"
    ELSE IF inputIndex >= numberOfInputs(destination) THEN "INDEX_SIZE_ERR"
    ELSE IF destination = ForeignNode THEN "SYNTAX_ERR"
    ELSE "OK"

\* the code that AudioNode::connect(AudioParam*, ...) leaves in ec
connectParamEc(n, param, outputIndex) ==
    IF param = NullParam THEN "SYNTAX_ERR"
    ELSE IF outputIndex >= numberOfOutputs(n) THEN "INDEX_SIZE_ERR"
    ELSE IF param = ForeignParam THEN "SYNTAX_ERR"
    ELSE "OK"

\* the code that AudioNode::disconnect leaves in ec
disconnectEc(n, outputIndex) ==
    IF outputIndex >= numberOfOutputs(n) THEN "INDEX_SIZE_ERR" ELSE "OK"

\* connect that tells the context of a connection before it checks its arguments
connectGraph_CountsEveryCall(g, n, destination, outputIndex, inputIndex) ==
    incrementConnectionCount(IF connectEc(n, destination, outputIndex, inputIndex) # "OK" THEN g
                             ELSE inputConnect(g, destination, inputIndex, n, outputIndex))

\* the graph after AudioNode::connect(AudioNode*, ...)
connectGraph(g, n, destination, outputIndex, inputIndex) ==
    IF connectEc(n, destination, outputIndex, inputIndex) # "OK" THEN g
    ELSE incrementConnectionCount(inputConnect(g, destination, inputIndex, n, outputIndex))

\* connect to a param that tells the context of a connection, as connect to a
\* node does
connectParamGraph_Counts(g, n, param, outputIndex) ==
    IF connectParamEc(n, param, outputIndex) # "OK" THEN g
    ELSE incrementConnectionCount(paramConnect(g, param, n, outputIndex))

\* the graph after AudioNode::connect(AudioParam*, ...)
connectParamGraph(g, n, param, outputIndex) ==
    IF connectParamEc(n, param, outputIndex) # "OK" THEN g
    ELSE paramConnect(g, param, n, outputIndex)

\* disconnect that takes from the connection count what connect added to it
disconnectGraph_Uncounts(g, n, outputIndex) ==
    IF disconnectEc(n, outputIndex) # "OK" THEN g
    ELSE [disconnectAll(g, n, outputIndex) EXCEPT !.count = @ - Cardinality(EdgesFrom(g, n, outputIndex))]

\* the graph after AudioNode::disconnect
disconnectGraph(g, n, outputIndex) ==
    IF disconnectEc(n, outputIndex) # "OK" THEN g
    ELSE disconnectAll(g, n, outputIndex)

\* the host holds a handle to node n: a live node with a normal ref
HasHandle(n) ==
    n \in liveNodes /\ m_normalRefCount[n] > 0

\* no call of connect or disconnect yet
NoCall == [op |-> "none", node |-> "none", dest |-> "none", out |-> 0, in |-> 0]

\* no connect to compare a later disconnect with
NoRoundTrip == [phase |-> "none", node |-> "none", dest |-> "none", before |-> <<>>, after |-> <<>>]

(***************************************************************************)
(* Initial state: the nodes as their constructors leave them.  The         *)
(* constructor of a node class ends with initialize(), as that of          *)
(* PannerNode does.                                                        *)
(***************************************************************************)
\* a triple of integers stands for a FloatPoint3D
Point(x, y, z) == <<x, y, z>>

\* the values of the enumerations of PannerNode.h, Panner.h and
\* DistanceEffect.h
EQUALPOWER == 0
HRTF == 1
SOUNDFIELD == 2
ModelLinear == 0
ModelInverse == 1
ModelExponential == 2

\* no call of a setter of the panner yet
NoPannerCall == [op |-> "none", model |-> 0, panner |-> 0, panningModel |-> 0, distanceModel |-> 0, created |-> 0, prevOp |-> "none", prevModel |-> 0]

\* no call of dopplerRate yet: the value is not a number
NoDopplerShift == <<0, -1>>

\* PannerNode::PannerNode; the model of a new DistanceEffect is set apart,
\* DistanceEffect not being in the source
PannerNodeInit ==
    /\ m_panningModel = HRTF
    /\ m_position = Point(0, 0, 0)
    /\ m_velocity = Point(0, 0, 0)
    /\ pannerIsInitialized = TRUE
    /\ m_panner = 1
    /\ pannersCreated = 1
    /\ pannerCall = NoPannerCall
    /\ dopplerShift = NoDopplerShift
    /\ pannerConnectionCount = 0
    /\ walkStack = <<>>
    /\ pannerSources = {}

\* a new AudioListener
AudioListenerInit ==
    /\ listenerPosition = Point(0, 0, 0)
    /\ listenerVelocity = Point(0, 0, 0)
    /\ dopplerFactor = 1
    /\ speedOfSound = 343

\* the members of the new nodes of a new context: AudioNode::AudioNode
InitMembers ==
    /\ m_isInitialized = [n \in Nodes |-> TRUE]
    /\ m_normalRefCount = [n \in Nodes |-> 1]
    /\ m_connectionRefCount = [n \in Nodes |-> 0]
    /\ m_isMarkedForDeletion = [n \in Nodes |-> FALSE]
    /\ m_isDisabled = [n \in Nodes |-> FALSE]
    /\ outputEnabled = [n \in Nodes |-> TRUE]
    /\ connections = {}
    /\ disabledConnections = {}
    /\ paramConnections = {}
    /\ m_connectionCount = 0
    /\ nodesToDelete = <<>>
    /\ deferredFinishDerefList = <<>>
    /\ liveNodes = Nodes
    /\ graphOwner = "none"
    /\ playingNodes = {}
    /\ ec = "OK"
    /\ lastCall = NoCall
    /\ roundTrip = NoRoundTrip
    /\ currentSampleFrame = 0
    /\ m_lastProcessingTime = [n \in Nodes |-> -QuantaPerSecond]
    /\ m_lastNonSilentTime = [n \in Nodes |-> -QuantaPerSecond]
    /\ outputSilent = [n \in Nodes |-> TRUE]
    /\ pulls = [n \in Nodes |-> 0]
    /\ processCalls = [n \in Nodes |-> 0]
    /\ silentQuanta = [n \in Nodes |-> 0]
    /\ sweepScenario = "none"

\* the nodes of a new graph: a buffer source, an effect and the destination
InitGraph ==
    /\ m_nodeType \in {t \in [Nodes -> NodeTypes] : t[SourceNode] = "NodeTypeAudioBufferSource" /\ t[EffectNode] \in {"NodeTypeUnknown", "NodeTypeDelay"} /\ t[DestinationNode] = "NodeTypeDestination"}
    /\ InitMembers

\* a new graph, a new panner that no call has touched and a new listener;
\* the distance effect of the panner starts with the inverse model
Init ==
    /\ InitGraph
    /\ PannerNodeInit
    /\ m_distanceModel = ModelInverse
    /\ AudioListenerInit

(***************************************************************************)
(* The control thread.                                                     *)
(***************************************************************************)
\* AudioContext::lock on the control thread: the AutoLocker of an operation
\* has acquired the graph lock and the operation has not run yet.  An
\* operation of the control thread runs as one step, from the lock it holds
\* or acquires to its unlock.
lock ==
    /\ graphOwner = "none"
    /\ graphOwner' = "main"
    /\ UNCHANGED <<history, pannerVars, m_nodeType, m_isInitialized, graphVars, ec, renderVars>>

\* AudioNode::connect(AudioNode*, unsigned, unsigned, ExceptionCode&)
connect(n, destination, outputIndex, inputIndex) ==
    /\ graphOwner # "audio"
    /\ HasHandle(n)
    /\ destination \in Nodes => HasHandle(destination)
    /\ connectEc(n, destination, outputIndex, inputIndex) = "OK" =>
           m_connectionRefCount[destination] < MaxRef /\ m_connectionCount < MaxConnectionCount
    /\ ec' = connectEc(n, destination, outputIndex, inputIndex)
    /\ Install(connectGraph(Graph, n, destination, outputIndex, inputIndex))
    /\ graphOwner' = "none"
    /\ UNCHANGED <<m_nodeType, m_isInitialized, renderVars>>

\* AudioNode::connect(AudioParam*, unsigned, ExceptionCode&)
connectParam(n, param, outputIndex) ==
    /\ graphOwner # "audio"
    /\ HasHandle(n)
    /\ ec' = connectParamEc(n, param, outputIndex)
    /\ Install(connectParamGraph(Graph, n, param, outputIndex))
    /\ graphOwner' = "none"
    /\ UNCHANGED <<m_nodeType, m_isInitialized, renderVars>>

\* AudioNode::disconnect(unsigned, ExceptionCode&)
disconnect(n, outputIndex) ==
    /\ graphOwner # "audio"
    /\ HasHandle(n)
    /\ ec' = disconnectEc(n, outputIndex)
    /\ Install(disconnectGraph(Graph, n, outputIndex))
    /\ graphOwner' = "none"
    /\ UNCHANGED <<m_nodeType, m_isInitialized, renderVars>>

\* a host handle is copied: AudioNode::ref(RefTypeNormal), which takes no lock
addRef(n) ==
    /\ graphOwner = "none"
    /\ HasHandle(n)
    /\ m_normalRefCount[n] < MaxRef
    /\ Install(ref(Graph, n, "RefTypeNormal"))
    /\ UNCHANGED <<history, pannerVars, m_nodeType, m_isInitialized, graphOwner, ec, renderVars>>

\* a host handle is released: AudioNode::deref(RefTypeNormal) on the control
\* thread, which locks and runs finishDeref
releaseHandle(n) ==
    /\ graphOwner # "audio"
    /\ HasHandle(n)
    /\ Install(finishDeref(Graph, n, "RefTypeNormal"))
    /\ graphOwner' = "none"
    /\ UNCHANGED <<pannerVars, m_nodeType, m_isInitialized, ec, renderVars>>

release(n) ==
    /\ releaseHandle(n)
    /\ UNCHANGED history

\* AudioContext::refNode: a source that starts playing is kept alive by a
\* connection ref, AudioNode::ref(RefTypeConnection) under the graph lock
refNode(n) ==
    /\ graphOwner # "audio"
    /\ HasHandle(n)
    /\ m_nodeType[n] = "NodeTypeAudioBufferSource"
    /\ n \notin playingNodes
    /\ m_connectionRefCount[n] < MaxRef
    /\ Install([ref(Graph, n, "RefTypeConnection") EXCEPT !.playing = @ \cup {n}])
    /\ graphOwner' = "none"
    /\ UNCHANGED <<history, pannerVars, m_nodeType, m_isInitialized, ec, renderVars>>

\* AudioContext::handleDeferredFinishDerefs: the graph owner finishes every
\* queued deref and empties the queue
RECURSIVE handleDeferredFinishDerefs(_)
handleDeferredFinishDerefs(g) ==
    IF g.deferred = <<>> THEN g
    ELSE handleDeferredFinishDerefs(finishDeref([g EXCEPT !.deferred = Tail(@)], Head(g.deferred), "RefTypeConnection"))

\* AudioContext::deleteMarkedNodes, the sweep: every node of the deletion
\* list is freed
deleteMarkedNodes(g) ==
    [g EXCEPT !.live = @ \ {g.toDelete[k] : k \in 1..Len(g.toDelete)}, !.toDelete = <<>>]

\* the control thread finishes the deferred derefs
mainHandleDeferred ==
    /\ graphOwner # "audio"
    /\ deferredFinishDerefList # <<>>
    /\ Install(handleDeferredFinishDerefs(Graph))
    /\ graphOwner' = "none"
    /\ UNCHANGED <<history, pannerVars, m_nodeType, m_isInitialized, ec, renderVars>>

\* the control-side sweep
sweepMarkedNodes ==
    /\ graphOwner # "audio"
    /\ nodesToDelete # <<>>
    /\ Install(deleteMarkedNodes(Graph))
    /\ graphOwner' = "none"
    /\ UNCHANGED <<pannerVars, m_nodeType, m_isInitialized, ec, renderVars>>

mainDeleteMarkedNodes ==
    /\ sweepMarkedNodes
    /\ UNCHANGED history

(***************************************************************************)
(* The audio thread.  Its steps never wait: tryLock succeeds exactly when  *)
(* the control thread does not hold the graph lock, and the audio thread   *)
(* releases the lock within the step that took it.                         *)
(***************************************************************************)
\* AudioContext::addDeferredFinishDeref
addDeferredFinishDeref(g, n) ==
    [g EXCEPT !.deferred = Append(@, n)]

\* deref that drops the count at once and leaves only the consequences to
\* the deferred queue, where finishDeref drops it again
derefOnAudioThread_DropsAtOnce(g, n, refType, hasLock) ==
    IF hasLock THEN finishDeref(g, n, refType)
    ELSE addDeferredFinishDeref([g EXCEPT !.conn[n] = @ - 1], n)

\* deref that forgets the reference when tryLock fails
derefOnAudioThread_Forgets(g, n, refType, hasLock) ==
    IF hasLock THEN finishDeref(g, n, refType) ELSE g

\* deref that runs finishDeref whether tryLock succeeded or not
derefOnAudioThread_IgnoresLock(g, n, refType, hasLock) ==
    finishDeref(g, n, refType)

\* AudioNode::deref on the audio thread: finishDeref under the lock, or the
\* deferred queue when tryLock fails
derefOnAudioThread(g, n, refType, hasLock) ==
    IF hasLock THEN finishDeref(g, n, refType) ELSE addDeferredFinishDeref(g, n)

\* a playing source finishes: the audio thread drops its connection ref
audioDeref(n) ==
    /\ n \in playingNodes
    /\ Install(derefOnAudioThread([Graph EXCEPT !.playing = @ \ {n}], n, "RefTypeConnection", graphOwner = "none"))
    /\ UNCHANGED <<history, pannerVars, m_nodeType, m_isInitialized, graphOwner, ec, renderVars>>

\* the top of a render quantum: with the lock acquired the audio thread
\* drains the deferred queue and the deletion list
handlePreRenderTasks ==
    /\ graphOwner = "none"
    /\ deferredFinishDerefList # <<>> \/ nodesToDelete # <<>>
    /\ Install(deleteMarkedNodes(handleDeferredFinishDerefs(Graph)))
    /\ UNCHANGED <<history, pannerVars, m_nodeType, m_isInitialized, graphOwner, ec, renderVars>>

(***************************************************************************)
(* Rendering.  Time is counted in render quanta: currentTime() is the      *)
(* number of quanta rendered so far, and the -1 (second) that the          *)
(* constructor gives m_lastProcessingTime and m_lastNonSilentTime is       *)
(* -QuantaPerSecond.  The state of one quantum is passed along as a        *)
(* record: the members the quantum writes, the counts of calls, and        *)
(* plays, whether the source emits sound in this quantum.                  *)
(***************************************************************************)
\* AudioContext::currentTime()
currentTime == currentSampleFrame

\* AudioNode::latencyTime() + AudioNode::tailTime(): zero but for the nodes with a tail
TailTime(n) ==
    IF IsTailSensitive(m_nodeType[n]) THEN DelayTailQuanta ELSE 0

\* the rendering connections that enter input i of node n
RenderingInto(n, i) ==
    {c \in RenderingEdges(Graph) : c[3] = n /\ c[4] = i}

\* AudioBus::isSilent() of the bus of input i of node n: the sum of the
\* buses of the connected outputs, silent when there is none
inputBusSilent(r, n, i) ==
    \A c \in RenderingInto(n, i) : r.silent[c[1]]

\* AudioNode::inputsAreSilent
inputsAreSilent(r, n) ==
    \A i \in 0..(numberOfInputs(n) - 1) : inputBusSilent(r, n, i)

\* propagatesSilence with <= where the source compares with <
propagatesSilence_AtTheBoundary(r, n) ==
    r.lnst[n] + TailTime(n) <= currentTime

\* AudioNode::propagatesSilence
propagatesSilence(r, n) ==
    r.lnst[n] + TailTime(n) < currentTime

\* propagatesSilence() of a source node: a source is silent when it does not play
sourcePropagatesSilence(r, n) ==
    ~r.plays

\* the virtual call of propagatesSilence() in processIfNecessary
callPropagatesSilence(r, n) ==
    IF m_nodeType[n] = "NodeTypeAudioBufferSource"
    THEN sourcePropagatesSilence(r, n)
    ELSE propagatesSilence(r, n)

\* AudioNode::silenceOutputs: AudioBus::zero() sets the silent flag
silenceOutputs(r, n) ==
    IF numberOfOutputs(n) > 0 THEN [r EXCEPT !.silent[n] = TRUE] ELSE r

\* AudioNode::unsilenceOutputs
unsilenceOutputs(r, n) ==
    IF numberOfOutputs(n) > 0 THEN [r EXCEPT !.silent[n] = FALSE] ELSE r

\* the call of the virtual process(): the node writes its output buses
process(r, n) ==
    [r EXCEPT !.calls[n] = @ + 1]

RECURSIVE processIfNecessary(_, _)
RECURSIVE pullConnections(_, _)
RECURSIVE pullInputsFrom(_, _, _)

\* AudioNodeInput::pull: every connected output is pulled, which makes its
\* node processIfNecessary
pullConnections(r, cs) ==
    IF cs = {} THEN r
    ELSE LET c == CHOOSE x \in cs : TRUE
         IN pullConnections(processIfNecessary(r, c[1]), cs \ {c})

\* the loop of AudioNode::pullInputs from input i on
pullInputsFrom(r, n, i) ==
    IF i >= numberOfInputs(n) THEN r
    ELSE pullInputsFrom(pullConnections(r, RenderingInto(n, i)), n, i + 1)

\* AudioNode::pullInputs
pullInputs(r, n) ==
    pullInputsFrom(r, n, 0)

\* processIfNecessary that moves m_lastNonSilentTime in every quantum,
\* whatever the inputs carry
processQuantum_AlwaysNonSilent(r, n) ==
    LET r1 == [r EXCEPT !.lpt[n] = currentTime]
        r2 == pullInputs(r1, n)
        silentInputs == inputsAreSilent(r2, n)
        r3 == [r2 EXCEPT !.lnst[n] = currentTime + 1]
        r4 == [r3 EXCEPT !.ran[n] = IF silentInputs THEN "silent" ELSE "sound"]
    IN IF silentInputs /\ callPropagatesSilence(r4, n)
       THEN silenceOutputs(r4, n)
       ELSE unsilenceOutputs(process(r4, n), n)

\* the body of AudioNode::processIfNecessary once the quantum is known to be new
processQuantum(r, n) ==
    LET r1 == [r EXCEPT !.lpt[n] = currentTime]
        r2 == pullInputs(r1, n)
        silentInputs == inputsAreSilent(r2, n)
        r3 == IF ~silentInputs THEN [r2 EXCEPT !.lnst[n] = currentTime + 1] ELSE r2
        r4 == [r3 EXCEPT !.ran[n] = IF silentInputs THEN "silent" ELSE "sound"]
    IN IF silentInputs /\ callPropagatesSilence(r4, n)
       THEN silenceOutputs(r4, n)
       ELSE unsilenceOutputs(process(r4, n), n)

\* processIfNecessary without the check of isInitialized()
processIfNecessary_Uninitialized(r, n) ==
    LET r0 == [r EXCEPT !.pulls[n] = @ + 1] IN
    IF r0.lpt[n] # currentTime THEN processQuantum(r0, n)
    ELSE r0

\* processIfNecessary that runs the body again when the node is reached a
\* second time in the quantum
processIfNecessary_SecondCallProcesses(r, n) ==
    LET r0 == [r EXCEPT !.pulls[n] = @ + 1] IN
    IF ~m_isInitialized[n] THEN r0
    ELSE IF r0.lpt[n] # currentTime \/ r0.pulls[n] = 2 THEN processQuantum(r0, n)
    ELSE r0

\* AudioNode::processIfNecessary
processIfNecessary(r, n) ==
    LET r0 == [r EXCEPT !.pulls[n] = @ + 1] IN
    IF ~m_isInitialized[n] THEN r0
    ELSE IF r0.lpt[n] # currentTime THEN processQuantum(r0, n)
    ELSE r0

\* the state of a quantum before the destination is pulled
RenderStart(plays) ==
    [ lpt    |-> m_lastProcessingTime,
      lnst   |-> m_lastNonSilentTime,
      silent |-> outputSilent,
      pulls  |-> [n \in Nodes |-> 0],
      calls  |-> [n \in Nodes |-> 0],
      ran    |-> [n \in Nodes |-> "no"],
      plays  |-> plays ]

\* one render quantum of the audio thread: the destination node calls
\* processIfNecessary on itself, then the sample frame counter advances
render(plays) ==
    /\ currentSampleFrame < MaxQuanta
    /\ LET r == processIfNecessary(RenderStart(plays), DestinationNode) IN
       /\ m_lastProcessingTime' = r.lpt
       /\ m_lastNonSilentTime' = r.lnst
       /\ outputSilent' = r.silent
       /\ pulls' = r.pulls
       /\ processCalls' = r.calls
       /\ silentQuanta' = [n \in Nodes |-> IF r.ran[n] = "silent" THEN silentQuanta[n] + 1 ELSE 0]
    /\ currentSampleFrame' = currentSampleFrame + 1
    /\ UNCHANGED <<history, pannerVars, m_nodeType, m_isInitialized, graphVars, graphOwner, ec>>

\* AudioNode::lazyInitialize: initialize() of a node that is not initialized
lazyInitialize(n) ==
    /\ graphOwner = "none"
    /\ n \in liveNodes
    /\ ~m_isInitialized[n]
    /\ m_isInitialized' = [m_isInitialized EXCEPT ![n] = TRUE]
    /\ pulls' = [k \in Nodes |-> 0]
    /\ processCalls' = [k \in Nodes |-> 0]
    /\ UNCHANGED <<history, pannerVars, m_nodeType, graphVars, graphOwner, ec, currentSampleFrame, m_lastProcessingTime, m_lastNonSilentTime, outputSilent, silentQuanta>>

\* AudioNode::uninitialize of an initialized node
uninitialize(n) ==
    /\ graphOwner = "none"
    /\ n \in liveNodes
    /\ m_isInitialized[n]
    /\ m_isInitialized' = [m_isInitialized EXCEPT ![n] = FALSE]
    /\ pulls' = [k \in Nodes |-> 0]
    /\ processCalls' = [k \in Nodes |-> 0]
    /\ UNCHANGED <<history, pannerVars, m_nodeType, graphVars, graphOwner, ec, currentSampleFrame, m_lastProcessingTime, m_lastNonSilentTime, outputSilent, silentQuanta>>

\* the arguments the host passes to connect and disconnect in Spec: nodes of
\* this context and port 0; the handle it copies is that of the effect
Next ==
    \/ lock
    \/ \E n \in Nodes, d \in Nodes : connect(n, d, 0, 0) /\ UNCHANGED <<history, pannerVars>>
    \/ \E n \in Nodes : disconnect(n, 0) /\ UNCHANGED <<history, pannerVars>>
    \/ addRef(EffectNode)
    \/ \E n \in Nodes : release(n)
    \/ \E n \in Nodes : refNode(n)
    \/ mainHandleDeferred
    \/ mainDeleteMarkedNodes
    \/ \E n \in Nodes : audioDeref(n)
    \/ handlePreRenderTasks

Spec == Init /\ [][Next]_vars

(***************************************************************************)
(* The calls of the host with every kind of argument: null and foreign     *)
(* nodes and params, ports in and out of range.                            *)
(***************************************************************************)
\* the calls of the host, recorded in lastCall
hostConnect(n, d, o, i) ==
    /\ connect(n, d, o, i)
    /\ lastCall' = [op |-> "connect", node |-> n, dest |-> d, out |-> o, in |-> i]

hostConnectParam(n, p, o) ==
    /\ connectParam(n, p, o)
    /\ lastCall' = [op |-> "connectParam", node |-> n, dest |-> p, out |-> o, in |-> 0]

hostDisconnect(n, o) ==
    /\ disconnect(n, o)
    /\ lastCall' = [op |-> "disconnect", node |-> n, dest |-> "none", out |-> o, in |-> 0]

NextConnect ==
    \/ \E n \in {SourceNode, EffectNode}, d \in Nodes \cup {NullNode, ForeignNode}, o \in Indices, i \in Indices : hostConnect(n, d, o, i) /\ UNCHANGED <<roundTrip, sweepScenario, pannerVars>>
    \/ \E n \in {SourceNode, EffectNode}, p \in Params, o \in Indices : hostConnectParam(n, p, o) /\ UNCHANGED <<roundTrip, sweepScenario, pannerVars>>
    \/ \E n \in Nodes, o \in Indices : hostDisconnect(n, o) /\ UNCHANGED <<roundTrip, sweepScenario, pannerVars>>

SpecConnect == Init /\ [][NextConnect]_vars

(***************************************************************************)
(* The host connects, disconnects and releases its handles; a connect      *)
(* from an output that had no connection records the graph before and      *)
(* after it, and the disconnect of that output from the graph as the       *)
(* connect left it completes the round trip.                               *)
(***************************************************************************)
\* what a round trip compares
Snapshot(g) ==
    [normal |-> g.normal, conn |-> g.conn, edges |-> g.edges, rendering |-> RenderingEdges(g), disabled |-> g.disabled]

roundTripConnect(n, d) ==
    /\ hostConnect(n, d, 0, 0)
    /\ roundTrip' = IF connectEc(n, d, 0, 0) = "OK" /\ EdgesFrom(Graph, n, 0) = {}
                    THEN [phase |-> "connected", node |-> n, dest |-> d, before |-> <<Snapshot(Graph)>>, after |-> <<connectGraph(Graph, n, d, 0, 0)>>]
                    ELSE NoRoundTrip

roundTripDisconnect(n) ==
    /\ hostDisconnect(n, 0)
    /\ roundTrip' = IF roundTrip.phase = "connected" /\ roundTrip.node = n /\ roundTrip.after = <<Graph>>
                    THEN [roundTrip EXCEPT !.phase = "done", !.after = <<disconnectGraph(Graph, n, 0)>>]
                    ELSE NoRoundTrip

NextDisconnect ==
    \/ \E n \in {SourceNode, EffectNode}, d \in {EffectNode, DestinationNode} : roundTripConnect(n, d) /\ UNCHANGED <<sweepScenario, pannerVars>>
    \/ \E n \in {SourceNode, EffectNode} : roundTripDisconnect(n) /\ UNCHANGED <<sweepScenario, pannerVars>>
    \/ \E n \in Nodes : release(n)

SpecDisconnect == Init /\ [][NextDisconnect]_vars

(***************************************************************************)
(* The graph is built and torn down while the audio thread renders.        *)
(***************************************************************************)
NextRender ==
    \/ \E n \in {SourceNode, EffectNode}, d \in {EffectNode, DestinationNode} : connect(n, d, 0, 0) /\ UNCHANGED <<history, pannerVars>>
    \/ \E n \in {SourceNode, EffectNode} : disconnect(n, 0) /\ UNCHANGED <<history, pannerVars>>
    \/ lazyInitialize(EffectNode)
    \/ uninitialize(EffectNode)
    \/ \E plays \in BOOLEAN : render(plays)

SpecRender == Init /\ [][NextRender]_vars

(***************************************************************************)
(* Properties of connect and disconnect, checked in SpecConnect.           *)
(***************************************************************************)
\* the step is the call that lastCall' records
ConnectStep ==
    /\ lastCall'.op = "connect"
    /\ hostConnect(lastCall'.node, lastCall'.dest, lastCall'.out, lastCall'.in)

ConnectParamStep ==
    /\ lastCall'.op = "connectParam"
    /\ hostConnectParam(lastCall'.node, lastCall'.dest, lastCall'.out)

DisconnectStep ==
    /\ lastCall'.op = "disconnect"
    /\ hostDisconnect(lastCall'.node, lastCall'.out)

\* an index that the node does not have
OutputOutOfRange(n, o) == o >= numberOfOutputs(n)
InputOutOfRange(d, i) == i >= numberOfInputs(d)

\* C1 as stated: connect returns SYNTAX when the destination is null or of
\* another context, INDEX_SIZE when an index is out of range, and succeeds
\* otherwise, each condition deciding the code on its own.
C1_AsStated ==
    lastCall.op = "connect" =>
        ec = IF lastCall.dest \in {NullNode, ForeignNode} THEN "SYNTAX_ERR"
             ELSE IF OutputOutOfRange(lastCall.node, lastCall.out) \/ InputOutOfRange(lastCall.dest, lastCall.in) THEN "INDEX_SIZE_ERR"
             ELSE "OK"

\* C1: connect returns SYNTAX when the destination is null; otherwise
\* INDEX_SIZE when the output index or the input index is out of range;
\* otherwise SYNTAX when the destination is of another context; for every
\* other input it succeeds and the connection is registered.
C1_ConnectErrorCodes ==
    lastCall.op = "connect" =>
        /\ ec = IF lastCall.dest = NullNode THEN "SYNTAX_ERR"
                ELSE IF OutputOutOfRange(lastCall.node, lastCall.out) \/ InputOutOfRange(lastCall.dest, lastCall.in) THEN "INDEX_SIZE_ERR"
                ELSE IF lastCall.dest = ForeignNode THEN "SYNTAX_ERR"
                ELSE "OK"
        /\ ec = "OK" => <<lastCall.node, lastCall.out, lastCall.dest, lastCall.in>> \in connections

\* connect to a node of another context with an input index out of range
C1_Witness ==
    /\ lastCall.op = "connect"
    /\ lastCall.dest = ForeignNode
    /\ ~OutputOutOfRange(lastCall.node, lastCall.out)
    /\ InputOutOfRange(lastCall.dest, lastCall.in)
    /\ ec = "INDEX_SIZE_ERR"

\* C2: a call of connect, connect to a param or disconnect that returns an
\* error code leaves the graph as it was: the ref counts, the connections,
\* the disabled flags and the connection count of the context.
C2_ErrorLeavesGraph ==
    [][(ConnectStep \/ ConnectParamStep \/ DisconnectStep) /\ ec' # "OK" => UNCHANGED graphVars]_vars

\* a call has returned an error on a graph that has connections
C2_Witness ==
    /\ lastCall.op \in {"connect", "connectParam", "disconnect"}
    /\ ec # "OK"
    /\ connections # {}
    /\ paramConnections # {}
    /\ m_connectionCount > 0

C5_AsStated ==
    [][ConnectParamStep =>
          /\ lastCall'.dest \in {NullParam, ForeignParam} => ec' = "SYNTAX_ERR"
          /\ (lastCall'.dest # NullParam /\ OutputOutOfRange(lastCall'.node, lastCall'.out)) => ec' = "INDEX_SIZE_ERR"
          /\ ec' = "OK" =>
                /\ <<lastCall'.node, lastCall'.out, lastCall'.dest>> \in paramConnections'
                /\ m_connectionCount' = m_connectionCount + 1]_vars

\* C5: connect to a param returns SYNTAX for a null param, otherwise
\* INDEX_SIZE for an output index out of range, otherwise SYNTAX for a param
\* of another context; on success it registers the connection with the param
\* and leaves the connection count of the context and every ref count as
\* they were.
C5_ConnectParam ==
    [][ConnectParamStep =>
          /\ ec' = IF lastCall'.dest = NullParam THEN "SYNTAX_ERR"
                   ELSE IF OutputOutOfRange(lastCall'.node, lastCall'.out) THEN "INDEX_SIZE_ERR"
                   ELSE IF lastCall'.dest = ForeignParam THEN "SYNTAX_ERR"
                   ELSE "OK"
          /\ ec' = "OK" => <<lastCall'.node, lastCall'.out, lastCall'.dest>> \in paramConnections'
          /\ m_connectionCount' = m_connectionCount
          /\ m_connectionRefCount' = m_connectionRefCount
          /\ m_normalRefCount' = m_normalRefCount]_vars

\* a connect to a param has succeeded after a connect to a node: the context
\* has counted one connection
C5_Witness ==
    /\ lastCall.op = "connectParam"
    /\ ec = "OK"
    /\ <<lastCall.node, lastCall.out, lastCall.dest>> \in paramConnections
    /\ connections # {}
    /\ m_connectionCount = 1

(***************************************************************************)
(* Properties of disconnect, checked in SpecDisconnect.                    *)
(***************************************************************************)
\* the connections into node b that the step removes
RemovedInto(b) == {c \in connections \ connections' : c[3] = b}

\* C4 as stated: disconnect of an output whose one connection goes to an
\* input of B takes exactly 1 from the connection count of the context and
\* exactly 1 from the connection ref count of B.
C4_AsStated ==
    [][DisconnectStep /\ ec' = "OK" =>
          \A c \in connections :
              EdgesFrom(Graph, lastCall'.node, lastCall'.out) = {c} =>
                  /\ m_connectionCount' = m_connectionCount - 1
                  /\ m_connectionRefCount'[c[3]] = m_connectionRefCount[c[3]] - 1]_vars

\* C4: disconnect leaves the connection count of the context as it was,
\* removes every connection of the output, and takes from the connection
\* ref count of each node exactly 1 for each connection into it that the
\* call removes, those of the nodes it marks for deletion included.
C4_DisconnectDerefs ==
    [][DisconnectStep /\ ec' = "OK" =>
          /\ m_connectionCount' = m_connectionCount
          /\ connections' \subseteq connections
          /\ EdgesFrom(Graph, lastCall'.node, lastCall'.out) \subseteq connections \ connections'
          /\ \A b \in Nodes :
                m_connectionRefCount'[b] = m_connectionRefCount[b] - Cardinality(RemovedInto(b))
          /\ m_normalRefCount' = m_normalRefCount]_vars

\* a disconnect has removed the connection that the connect before it made:
\* the destination has no connection ref left and the context still counts
\* the connection
C4_Witness ==
    /\ roundTrip.phase = "done"
    /\ lastCall.op = "disconnect"
    /\ ec = "OK"
    /\ m_connectionRefCount[roundTrip.dest] = 0
    /\ EdgesFrom(Graph, roundTrip.node, 0) = {}
    /\ m_connectionCount > 0

(***************************************************************************)
(* Properties of the ref counts and the deletion list, checked in Spec.    *)
(***************************************************************************)
\* C7: under every interleaving of connect, disconnect, ref and deref, the
\* derefs deferred by the audio thread included, no normal ref count and no
\* connection ref count of a node falls below 0.
C7_RefCountsNotNegative ==
    \A n \in Nodes : m_normalRefCount[n] >= 0 /\ m_connectionRefCount[n] >= 0

\* the control thread holds the graph lock while the deref of the last
\* reference to the source waits in the deferred queue
C7_Witness ==
    /\ graphOwner = "main"
    /\ deferredFinishDerefList = <<SourceNode>>
    /\ m_normalRefCount[SourceNode] = 0
    /\ m_connectionRefCount[SourceNode] = 1
    /\ connections # {}

\* how often node n is on the deletion list
TimesOnDeletionList(n) ==
    Cardinality({k \in 1..Len(nodesToDelete) : nodesToDelete[k] = n})

\* both ref counts of node n are zero
Unreferenced(n) ==
    m_normalRefCount[n] = 0 /\ m_connectionRefCount[n] = 0

\* a sweep of the deletion list, by either thread
SweepStep ==
    mainDeleteMarkedNodes \/ handlePreRenderTasks

\* C8: a node that is not freed is on the deletion list exactly once when
\* both its ref counts are zero and not at all otherwise, and the next sweep
\* frees every node whose ref counts are both zero and no other node.
C8_MarkedOnceFreedBySweep ==
    /\ [](\A n \in Nodes :
             /\ n \in liveNodes => TimesOnDeletionList(n) = (IF Unreferenced(n) THEN 1 ELSE 0)
             /\ n \notin liveNodes => TimesOnDeletionList(n) = 0 /\ Unreferenced(n))
    /\ [][SweepStep =>
             /\ \A n \in liveNodes : Unreferenced(n) => n \notin liveNodes'
             /\ \A n \in liveNodes' : ~Unreferenced(n)'
             /\ nodesToDelete' = <<>>]_vars

\* the effect has been freed by a sweep and the source, unreferenced since,
\* waits on the deletion list for the next one
C8_Witness ==
    /\ EffectNode \notin liveNodes
    /\ SourceNode \in liveNodes
    /\ Unreferenced(SourceNode)
    /\ nodesToDelete = <<SourceNode>>

\* the round trip of C9: the graph before the connect of roundTrip.node to
\* roundTrip.dest, the output having no connection, compared with the graph
\* that the disconnect following it has left
RoundTripDone == roundTrip.phase = "done"
Before == roundTrip.before[1]
After == roundTrip.after[1]

\* the ref counts and the connections are those before the connect
RefCountsRestored ==
    /\ After.normal = Before.normal
    /\ After.conn = Before.conn
    /\ After.edges = Before.edges

\* the rendering connections and the disabled flags are those before the connect
RenderingRestored ==
    /\ RenderingEdges(After) = Before.rendering
    /\ After.disabled = Before.disabled

\* C9 as stated: from any reachable state, a successful connect of an
\* output of A that has no connection to an input of B, followed at once by
\* disconnect of that output, restores the normal and the connection ref
\* count of every node and the rendering connections of every output.
C9_AsStated ==
    RoundTripDone =>
        /\ After.normal = Before.normal
        /\ After.conn = Before.conn
        /\ RenderingEdges(After) = Before.rendering

\* C9: the round trip restores the ref counts of every node and the
\* connections.  It restores the rendering connections and the disabled
\* flags when B was enabled and either held a connection ref before the
\* connect or is a node with a tail; an enabled B without a tail that held
\* no connection ref is left disabled.
C9_RoundTrip ==
    RoundTripDone =>
        LET B == roundTrip.dest IN
        /\ RefCountsRestored
        /\ (~Before.disabled[B] /\ (Before.conn[B] >= 1 \/ IsTailSensitive(m_nodeType[B]))) => RenderingRestored
        /\ (~Before.disabled[B] /\ Before.conn[B] = 0 /\ ~IsTailSensitive(m_nodeType[B])) => After.disabled[B]

\* a round trip through an enabled effect that held no connection ref and
\* feeds the destination: the effect is left disabled and its connection is
\* no longer rendered
C9_Witness ==
    /\ RoundTripDone
    /\ roundTrip.node = SourceNode
    /\ roundTrip.dest = EffectNode
    /\ ~Before.disabled[EffectNode]
    /\ After.disabled[EffectNode]
    /\ <<EffectNode, 0, DestinationNode, 0>> \in Before.rendering \ RenderingEdges(After)
    /\ RefCountsRestored

(***************************************************************************)
(* Properties of rendering, checked in SpecRender.  They speak of the      *)
(* last quantum rendered, which began at currentTime - 1.                  *)
(***************************************************************************)
\* C6 as stated: in a render quantum process() of a node is invoked at most
\* once, however often the node is pulled, and after the first call of
\* processIfNecessary its m_lastProcessingTime is the time of the quantum.
C6_AsStated ==
    \A n \in Nodes :
        /\ processCalls[n] <= 1
        /\ pulls[n] >= 1 => m_lastProcessingTime[n] = currentTime - 1

\* C6: in a render quantum process() of a node is invoked at most once,
\* however often the node is pulled; after the first call of
\* processIfNecessary the m_lastProcessingTime of an initialized node is the
\* time of the quantum, and process() of a node that is not initialized is
\* not invoked at all.
C6_ProcessOncePerQuantum ==
    \A n \in Nodes :
        /\ processCalls[n] <= 1
        /\ (pulls[n] >= 1 /\ m_isInitialized[n]) => m_lastProcessingTime[n] = currentTime - 1
        /\ (pulls[n] >= 1 /\ ~m_isInitialized[n]) => processCalls[n] = 0

\* fan-out: the source was pulled by the effect and by the destination in
\* one quantum and processed once
C6_Witness ==
    /\ pulls[SourceNode] = 2
    /\ processCalls[SourceNode] = 1
    /\ m_lastProcessingTime[SourceNode] = currentTime - 1
    /\ pulls[EffectNode] = 1

\* the nodes that have inputs
NodesWithInputs == {n \in Nodes : numberOfInputs(n) > 0}

\* the whole quanta for which the inputs of node n had been silent when the
\* last quantum began, the node processing them one after the other
SilentBefore(n) == silentQuanta[n] - 1

\* the last quantum silenced node n: process() was not invoked and the
\* outputs carry the silent flag
Silenced(n) ==
    /\ processCalls[n] = 0
    /\ numberOfOutputs(n) > 0 => outputSilent[n]

\* C10 as stated: when the inputs of an initialized node have been silent
\* for a time t >= latency + tail, a quantum in which they are still silent
\* silences the node: process() is not invoked and the outputs carry the
\* silent flag.
C10_AsStated ==
    \A n \in NodesWithInputs :
        (m_isInitialized[n] /\ SilentBefore(n) >= 1 /\ SilentBefore(n) >= TailTime(n)) => Silenced(n)

\* C10: when the inputs of an initialized node have been silent for a time
\* t > latency + tail, strictly, a quantum in which they are still silent
\* silences the node: process() is not invoked and the outputs carry the
\* silent flag.
C10_SilencePropagates ==
    \A n \in NodesWithInputs :
        (m_isInitialized[n] /\ SilentBefore(n) >= 1 /\ SilentBefore(n) > TailTime(n)) => Silenced(n)

\* the effect has carried sound, its inputs have then been silent for longer
\* than its tail, and the last quantum silenced it
C10_Witness ==
    /\ m_isInitialized[EffectNode]
    /\ m_lastNonSilentTime[EffectNode] > 0
    /\ pulls[EffectNode] >= 1
    /\ SilentBefore(EffectNode) >= 1
    /\ SilentBefore(EffectNode) > TailTime(EffectNode)
    /\ Silenced(EffectNode)

\* node n carried sound in the quantum before the last one and ran with
\* silent inputs in the last one: the second quantum of the silence-tail
\* scenario
SecondQuantum(n) ==
    /\ m_isInitialized[n]
    /\ pulls[n] >= 1
    /\ silentQuanta[n] = 1
    /\ m_lastNonSilentTime[n] = currentTime - 1

\* node n carried sound three quanta ago and has run with silent inputs in
\* the two quanta since: the third quantum of the scenario
ThirdQuantum(n) ==
    /\ m_isInitialized[n]
    /\ pulls[n] >= 1
    /\ silentQuanta[n] = 2
    /\ m_lastNonSilentTime[n] = currentTime - 2

\* C11 as stated: for a node with latency 0 and tail 0 whose input is
\* non-silent in one quantum and silent in the next, the silent flag of the
\* output is true in that second quantum.
C11_AsStated ==
    \A n \in NodesWithInputs :
        (TailTime(n) = 0 /\ numberOfOutputs(n) > 0 /\ SecondQuantum(n)) => outputSilent[n]

\* C11: for a node with latency 0 and tail 0 whose input is non-silent in
\* one quantum and silent in the next, the second quantum still invokes
\* process() and leaves the silent flag of the output false; the flag is
\* true in the third quantum, when the input is silent again.
C11_SilenceTail ==
    \A n \in NodesWithInputs :
        (TailTime(n) = 0 /\ numberOfOutputs(n) > 0) =>
            /\ SecondQuantum(n) => (processCalls[n] = 1 /\ ~outputSilent[n])
            /\ ThirdQuantum(n) => Silenced(n)

\* the effect, with no tail, has gone through the three quanta
C11_Witness ==
    /\ TailTime(EffectNode) = 0
    /\ ThirdQuantum(EffectNode)
    /\ outputSilent[EffectNode]
    /\ processCalls[EffectNode] = 0

\* node n was called in the last quantum while it was not initialized
PulledUninitialized(n) ==
    /\ ~m_isInitialized[n]
    /\ pulls[n] >= 1
    /\ numberOfOutputs(n) > 0

\* C13 as stated: a node that is not initialized when it is pulled in a
\* quantum emits zero for that quantum: after processIfNecessary returns,
\* the bus of its output is zeroed and carries the silent flag.
C13_AsStated ==
    \A n \in Nodes : PulledUninitialized(n) => outputSilent[n]

\* C13, what the source does: the call on a node that is not initialized
\* returns without invoking process() and without writing the time stamps
\* of the node; the bus of the output is left as the last processed quantum
\* wrote it.
C13_UninitializedReturns ==
    \A n \in Nodes :
        PulledUninitialized(n) =>
            /\ processCalls[n] = 0
            /\ m_lastProcessingTime[n] < currentTime - 1
            /\ m_lastNonSilentTime[n] < currentTime

\* the effect carried sound, was uninitialized and was pulled again: its
\* bus still holds the sound of the quantum before
C13_Witness ==
    /\ PulledUninitialized(EffectNode)
    /\ ~outputSilent[EffectNode]
    /\ m_lastNonSilentTime[EffectNode] > 0

(***************************************************************************)
(* The chain scenario: the host builds source -> effect -> destination,    *)
(* releases its handle of the source, disconnects the output of the        *)
(* effect, and the control thread sweeps; it then releases its handle of   *)
(* the effect, and the control thread sweeps again.  sweepScenario         *)
(* records how far the last calls of the host have followed that script.   *)
(***************************************************************************)
\* the graph is the chain, each connection made once, every node holds the
\* handle it was created with and nothing awaits the sweep
IsChain(g) ==
    /\ g.edges = {<<SourceNode, 0, EffectNode, 0>>, <<EffectNode, 0, DestinationNode, 0>>}
    /\ g.normal = [n \in Nodes |-> 1]
    /\ g.conn = [n \in Nodes |-> IF n = SourceNode THEN 0 ELSE 1]
    /\ g.live = Nodes
    /\ g.toDelete = <<>>
    /\ g.deferred = <<>>
    /\ g.playing = {}

\* the step of the script that call op on node n takes
scenarioStep(op, n) ==
    IF op = "release" /\ n = SourceNode /\ sweepScenario = "chain" THEN "released"
    ELSE IF op = "disconnect" /\ n = EffectNode /\ sweepScenario = "released" THEN "disconnected"
    ELSE IF op = "sweep" /\ sweepScenario = "disconnected" THEN "swept"
    ELSE IF op = "release" /\ n = EffectNode /\ sweepScenario = "swept" THEN "handleReleased"
    ELSE IF op = "sweep" /\ sweepScenario = "handleReleased" THEN "sweptAll"
    ELSE "none"

scenarioConnect(n, d) ==
    /\ connect(n, d, 0, 0)
    /\ sweepScenario' = IF IsChain(connectGraph(Graph, n, d, 0, 0)) THEN "chain" ELSE "none"
    /\ UNCHANGED <<lastCall, roundTrip, pannerVars>>

scenarioDisconnect(n) ==
    /\ disconnect(n, 0)
    /\ sweepScenario' = scenarioStep("disconnect", n)
    /\ UNCHANGED <<lastCall, roundTrip, pannerVars>>

scenarioRelease(n) ==
    /\ releaseHandle(n)
    /\ sweepScenario' = scenarioStep("release", n)
    /\ UNCHANGED <<lastCall, roundTrip>>

scenarioSweep ==
    /\ sweepMarkedNodes
    /\ sweepScenario' = scenarioStep("sweep", "none")
    /\ UNCHANGED <<lastCall, roundTrip>>

NextSweep ==
    \/ \E n \in {SourceNode, EffectNode}, d \in {EffectNode, DestinationNode} : scenarioConnect(n, d)
    \/ \E n \in {SourceNode, EffectNode} : scenarioDisconnect(n)
    \/ \E n \in Nodes : scenarioRelease(n)
    \/ scenarioSweep

SpecSweep == Init /\ [][NextSweep]_vars

(***************************************************************************)
(* The chain scenario, checked in SpecSweep.                               *)
(***************************************************************************)
\* C12 as stated: with the chain A -> B -> dest, after the host handle to A
\* is released and then B's output is disconnected from dest, the next
\* sweep frees both A and B: the live nodes are exactly {dest}.
C12_AsStated ==
    sweepScenario = "swept" => liveNodes = {DestinationNode}

\* C12: with the chain A -> B -> dest, after the host handle to A is
\* released and then B's output is disconnected from dest, the next sweep
\* frees A alone; B holds no connection any more and stays alive on the
\* handle of the host, through which the disconnect was called.  Once that
\* handle is released too, the sweep after it frees B and the live nodes
\* are exactly {dest}.
C12_SweepFreesReleasedNodes ==
    /\ sweepScenario = "swept" =>
           /\ liveNodes = {EffectNode, DestinationNode}
           /\ connections = {}
           /\ m_normalRefCount[EffectNode] = 1
           /\ m_connectionRefCount[EffectNode] = 0
           /\ ~m_isMarkedForDeletion[EffectNode]
           /\ nodesToDelete = <<>>
    /\ sweepScenario = "sweptAll" => liveNodes = {DestinationNode}

\* the script has run to its end
C12_Witness ==
    /\ sweepScenario = "sweptAll"
    /\ liveNodes = {DestinationNode}
    /\ m_normalRefCount[SourceNode] = 0
    /\ m_normalRefCount[EffectNode] = 0

(***************************************************************************)
(* The panner node: its panning model, its panner strategy and its         *)
(* distance model, under the setters and under initialize / uninitialize.  *)
(***************************************************************************)
\* the calls of Panner::create within one behaviour
MaxPanners == 4

\* the largest model number the host passes, besides the largest unsigned short
MaxModel == 3

\* the arguments of the setters: unsigned short
ModelArgs == (0..MaxModel) \cup {65535}

\* the panner node as the setters see it
Panner == [panner |-> m_panner, panningModel |-> m_panningModel, distanceModel |-> m_distanceModel, created |-> pannersCreated]

\* Panner::create(model, sampleRate) assigned to m_panner: a new strategy
pannerCreate(p) ==
    [p EXCEPT !.created = @ + 1, !.panner = p.created + 1]

\* setPanningModel that takes the sound field model for an equal-power one
setPanningModelEc_SoundField(model) ==
    IF model \in {EQUALPOWER, HRTF, SOUNDFIELD} THEN "OK" ELSE "NOT_SUPPORTED_ERR"

\* PannerNode::setPanningModel: what it leaves in ec
setPanningModelEc(model) ==
    CASE model = EQUALPOWER \/ model = HRTF -> "OK"
      [] model = SOUNDFIELD -> "NOT_SUPPORTED_ERR"
      [] OTHER -> "NOT_SUPPORTED_ERR"

\* setPanningModel that creates a panner on every accepted call
setPanningModelNode_AlwaysCreates(p, model) ==
    IF model = EQUALPOWER \/ model = HRTF
    THEN [pannerCreate(p) EXCEPT !.panningModel = model]
    ELSE p

\* PannerNode::setPanningModel: what it does to the node
setPanningModelNode(p, model) ==
    CASE model = EQUALPOWER \/ model = HRTF ->
             IF p.panner = 0 \/ model # p.panningModel
             THEN [pannerCreate(p) EXCEPT !.panningModel = model]
             ELSE p
      [] model = SOUNDFIELD -> p
      [] OTHER -> p

\* PannerNode::setDistanceModel: what it leaves in ec
setDistanceModelEc(model) ==
    CASE model = ModelLinear \/ model = ModelInverse \/ model = ModelExponential -> "OK"
      [] OTHER -> "NOT_SUPPORTED_ERR"

\* PannerNode::setDistanceModel: what it does to the node
setDistanceModelNode(p, model) ==
    CASE model = ModelLinear \/ model = ModelInverse \/ model = ModelExponential ->
             [p EXCEPT !.distanceModel = model]
      [] OTHER -> p

\* the record of a call: the call, its argument, the panner as the call
\* found it and the call before it
PannerCall(op, model) ==
    [op |-> op, model |-> model, panner |-> m_panner, panningModel |-> m_panningModel, distanceModel |-> m_distanceModel, created |-> pannersCreated, prevOp |-> pannerCall.op, prevModel |-> pannerCall.model]

\* the panner node after a call
InstallPanner(p) ==
    /\ p.created <= MaxPanners
    /\ m_panner' = p.panner
    /\ m_panningModel' = p.panningModel
    /\ m_distanceModel' = p.distanceModel
    /\ pannersCreated' = p.created

\* what the calls on the panner leave alone
pannerFrame == <<m_nodeType, m_isInitialized, graphVars, graphOwner, history, renderVars, m_position, m_velocity, listenerPosition, listenerVelocity, dopplerFactor, speedOfSound, dopplerShift, pannerConnectionCount, walkStack, pannerSources>>

setPanningModel(model) ==
    /\ InstallPanner(setPanningModelNode(Panner, model))
    /\ ec' = setPanningModelEc(model)
    /\ pannerCall' = PannerCall("setPanningModel", model)
    /\ UNCHANGED <<pannerFrame, pannerIsInitialized>>

setDistanceModel(model) ==
    /\ InstallPanner(setDistanceModelNode(Panner, model))
    /\ ec' = setDistanceModelEc(model)
    /\ pannerCall' = PannerCall("setDistanceModel", model)
    /\ UNCHANGED <<pannerFrame, pannerIsInitialized>>

\* PannerNode::initialize
pannerInitialize ==
    /\ IF pannerIsInitialized THEN InstallPanner(Panner) ELSE InstallPanner(pannerCreate(Panner))
    /\ pannerIsInitialized' = TRUE
    /\ pannerCall' = PannerCall("initialize", 0)
    /\ UNCHANGED <<pannerFrame, ec>>

\* PannerNode::uninitialize
pannerUninitialize ==
    /\ IF pannerIsInitialized THEN InstallPanner([Panner EXCEPT !.panner = 0]) ELSE InstallPanner(Panner)
    /\ pannerIsInitialized' = FALSE
    /\ pannerCall' = PannerCall("uninitialize", 0)
    /\ UNCHANGED <<pannerFrame, ec>>

\* a new panner; the model of a new DistanceEffect is one of the three
InitPanner ==
    /\ InitGraph
    /\ PannerNodeInit
    /\ m_distanceModel \in {ModelLinear, ModelInverse, ModelExponential}
    /\ AudioListenerInit

NextPanner ==
    \/ \E model \in ModelArgs : setPanningModel(model)
    \/ \E model \in ModelArgs : setDistanceModel(model)
    \/ pannerInitialize
    \/ pannerUninitialize

SpecPanner == InitPanner /\ [][NextPanner]_vars

(***************************************************************************)
(* Properties of the setters of the panner, checked in SpecPanner.         *)
(***************************************************************************)
\* the last call was setPanningModel or setDistanceModel
PanningModelCalled == pannerCall.op = "setPanningModel"
DistanceModelCalled == pannerCall.op = "setDistanceModel"

\* the last call left the stored models and the panner strategy as it found
\* them
PannerUntouched ==
    /\ m_panner = pannerCall.panner
    /\ m_panningModel = pannerCall.panningModel
    /\ m_distanceModel = pannerCall.distanceModel
    /\ pannersCreated = pannerCall.created

\* C14: setPanningModel accepts 0 (EQUALPOWER) and 1 (HRTF) and returns
\* NOT_SUPPORTED for 2 (SOUNDFIELD) and every other value; setDistanceModel
\* accepts 0, 1, 2 and returns NOT_SUPPORTED for every other value; on
\* NOT_SUPPORTED the stored model and the panner strategy are unchanged, and
\* an accepted model is the stored one after the call.
C14_SettersAcceptAndReject ==
    /\ PanningModelCalled =>
           /\ ec = IF pannerCall.model \in {0, 1} THEN "OK" ELSE "NOT_SUPPORTED_ERR"
           /\ ec = "NOT_SUPPORTED_ERR" => PannerUntouched
           /\ ec = "OK" => (m_panningModel = pannerCall.model /\ m_panner # 0 /\ m_distanceModel = pannerCall.distanceModel)
    /\ DistanceModelCalled =>
           /\ ec = IF pannerCall.model \in {0, 1, 2} THEN "OK" ELSE "NOT_SUPPORTED_ERR"
           /\ ec = "NOT_SUPPORTED_ERR" => PannerUntouched
           /\ ec = "OK" => (m_distanceModel = pannerCall.model /\ m_panner = pannerCall.panner /\ m_panningModel = pannerCall.panningModel)

\* setPanningModel(2) was refused on a panner that held a strategy, which it
\* still holds
C14_Witness ==
    /\ PanningModelCalled
    /\ pannerCall.model = SOUNDFIELD
    /\ ec = "NOT_SUPPORTED_ERR"
    /\ m_panner # 0
    /\ PannerUntouched

\* the last two calls were setPanningModel with the same accepted model
CalledTwice ==
    /\ PanningModelCalled
    /\ pannerCall.prevOp = "setPanningModel"
    /\ pannerCall.prevModel = pannerCall.model
    /\ pannerCall.model \in {EQUALPOWER, HRTF}

\* C15: setPanningModel is idempotent: for every accepted model x, the
\* second of two calls setPanningModel(x) in a row leaves the state the
\* first call left and creates no new panner strategy.
C15_SetPanningModelIdempotent ==
    CalledTwice => (PannerUntouched /\ ec = "OK" /\ m_panningModel = pannerCall.model /\ m_panner # 0)

\* the first call replaced the strategy, the second kept it
C15_Witness ==
    /\ CalledTwice
    /\ pannerCall.model = EQUALPOWER
    /\ pannersCreated >= 2
    /\ m_panner = pannersCreated
    /\ PannerUntouched

(***************************************************************************)
(* The Doppler rate of the panner.  A double is a pair <<n, d>> in lowest  *)
(* terms with d >= 0: the number n / d when d > 0, +Inf as <<1, 0>>, -Inf  *)
(* as <<-1, 0>> and NaN as <<0, 0>>.  The arithmetic is exact: the         *)
(* rounding of the finite results and the sign of zero are left out.       *)
(***************************************************************************)
Abs(x) == IF x < 0 THEN -x ELSE x

Sign(x) == IF x < 0 THEN -1 ELSE IF x > 0 THEN 1 ELSE 0

RECURSIVE Gcd(_, _)
Gcd(a, b) == IF b = 0 THEN a ELSE Gcd(b, a % b)

\* the double n / d, for d >= 0
Double(n, d) ==
    IF d = 0 THEN <<Sign(n), 0>>
    ELSE LET g == Gcd(Abs(n), d) IN <<n \div g, d \div g>>

NaN == <<0, 0>>
isnan(x) == x = NaN
isinf(x) == x[2] = 0 /\ x[1] # 0

\* a < b for finite doubles, by their continued fractions
RECURSIVE LessFinite(_, _)
LessFinite(a, b) ==
    LET fa == a[1] \div a[2]
        fb == b[1] \div b[2]
        ra == a[1] % a[2]
        rb == b[1] % b[2]
    IN IF fa # fb THEN fa < fb
       ELSE IF rb = 0 THEN FALSE
       ELSE IF ra = 0 THEN TRUE
       ELSE LessFinite(<<b[2], rb>>, <<a[2], ra>>)

\* a < b: false as soon as one of the two is NaN
Less(a, b) ==
    IF isnan(a) \/ isnan(b) THEN FALSE
    ELSE IF isinf(a) \/ isinf(b)
         THEN (a = <<-1, 0>> /\ b # <<-1, 0>>) \/ (b = <<1, 0>> /\ a # <<1, 0>>)
         ELSE LessFinite(a, b)

\* -a, a * b, a - b and a / b
Neg(a) == <<-a[1], a[2]>>

Mul(a, b) == Double(a[1] * b[1], a[2] * b[2])

Sub(a, b) ==
    IF isinf(a) /\ isinf(b) THEN (IF a = b THEN NaN ELSE a)
    ELSE Double(a[1] * b[2] - b[1] * a[2], a[2] * b[2])

Div(a, b) ==
    LET n == a[1] * b[2]
        d == a[2] * b[1]
    IN IF d < 0 THEN Double(-n, -d) ELSE Double(n, d)

\* std::min(a, b): b when b < a, else a
min(a, b) == IF Less(b, a) THEN b ELSE a

\* FloatPoint3D: a - b, a.dot(b), a.isZero(), and a.length() of a vector
\* whose length is a whole number
minus(a, b) == Point(a[1] - b[1], a[2] - b[2], a[3] - b[3])

dot(a, b) == a[1] * b[1] + a[2] * b[2] + a[3] * b[3]

isZero(a) == a = Point(0, 0, 0)

IsSquare(k) == \E r \in 0..k : r * r = k

length(a) == Double(CHOOSE r \in 0..dot(a, a) : r * r = dot(a, a), 1)

\* fixNANs
fixNANs(x) ==
    IF isnan(x) \/ isinf(x) THEN Double(0, 1) ELSE x

\* PannerNode::dopplerRate, lines 270-286: the shift before fixNANs, for a
\* source or a listener that moves
rawDopplerShift(position, velocity, lPosition, lVelocity, factor, speed) ==
    LET sourceToListener == minus(position, lPosition)
        sourceListenerMagnitude == length(sourceToListener)
        listenerProjection == Neg(Div(Double(dot(sourceToListener, lVelocity), 1), sourceListenerMagnitude))
        sourceProjection == Neg(Div(Double(dot(sourceToListener, velocity), 1), sourceListenerMagnitude))
        scaledSpeedOfSound == Div(Double(speed, 1), Double(factor, 1))
        lp == min(listenerProjection, scaledSpeedOfSound)
        sp == min(sourceProjection, scaledSpeedOfSound)
    IN Div(Sub(Double(speed, 1), Mul(Double(factor, 1), lp)), Sub(Double(speed, 1), Mul(Double(factor, 1), sp)))

\* dopplerRate that returns the shift as it is
dopplerRate_Unclamped(position, velocity, lPosition, lVelocity, factor, speed) ==
    IF ~Less(Double(0, 1), Double(factor, 1)) THEN Double(1, 1)
    ELSE IF isZero(velocity) /\ isZero(lVelocity) THEN Double(1, 1)
    ELSE fixNANs(rawDopplerShift(position, velocity, lPosition, lVelocity, factor, speed))

\* PannerNode::dopplerRate
dopplerRate(position, velocity, lPosition, lVelocity, factor, speed) ==
    IF ~Less(Double(0, 1), Double(factor, 1)) THEN Double(1, 1)
    ELSE IF isZero(velocity) /\ isZero(lVelocity) THEN Double(1, 1)
    ELSE LET shift == fixNANs(rawDopplerShift(position, velocity, lPosition, lVelocity, factor, speed))
         IN IF Less(Double(16, 1), shift) THEN Double(16, 1)
            ELSE IF Less(shift, Double(1, 8)) THEN Double(1, 8)
            ELSE shift

\* the positions, the velocities, the Doppler factors and the speeds of
\* sound the host sets
Positions == {Point(0, 0, 0), Point(1, 0, 0), Point(-1, 0, 0), Point(0, 2, 0)}
ListenerPositions == {Point(0, 0, 0), Point(1, 0, 0)}
Velocities == {Point(0, 0, 0), Point(1000000000, 0, 0), Point(-1000000000, 0, 0), Point(0, 100, 0), Point(-400, 0, 0), Point(100, 0, 0)}
DopplerFactors == {-1, 0, 1, 2}
SpeedsOfSound == {340, 1}

\* a panner and a listener that the host has placed and set in motion
InitDoppler ==
    /\ InitGraph
    /\ m_panningModel = HRTF
    /\ pannerIsInitialized = TRUE
    /\ m_panner = 1
    /\ pannersCreated = 1
    /\ m_distanceModel = ModelInverse
    /\ pannerCall = NoPannerCall
    /\ dopplerShift = NoDopplerShift
    /\ pannerConnectionCount = 0
    /\ walkStack = <<>>
    /\ pannerSources = {}
    /\ m_position \in Positions
    /\ m_velocity \in Velocities
    /\ listenerPosition \in ListenerPositions
    /\ listenerVelocity \in Velocities
    /\ dopplerFactor \in DopplerFactors
    /\ speedOfSound \in SpeedsOfSound
    /\ IsSquare(dot(minus(m_position, listenerPosition), minus(m_position, listenerPosition)))

\* a call of dopplerRate on the panner
callDopplerRate ==
    /\ dopplerShift' = dopplerRate(m_position, m_velocity, listenerPosition, listenerVelocity, dopplerFactor, speedOfSound)
    /\ UNCHANGED <<m_nodeType, m_isInitialized, graphVars, graphOwner, ec, history, renderVars>>
    /\ UNCHANGED <<pannerIsInitialized, m_panningModel, m_panner, m_distanceModel, m_position, m_velocity, pannersCreated, listenerPosition, listenerVelocity, dopplerFactor, speedOfSound, pannerCall, pannerConnectionCount, walkStack, pannerSources>>

NextDoppler == callDopplerRate

SpecDoppler == InitDoppler /\ [][NextDoppler]_vars

(***************************************************************************)
(* Properties of dopplerRate, checked in SpecDoppler.                      *)
(***************************************************************************)
\* dopplerRate has been called
DopplerRateCalled == dopplerShift # NoDopplerShift

\* the source or the listener moves and the Doppler factor is positive: the
\* call computes a shift
ShiftComputed ==
    /\ dopplerFactor > 0
    /\ ~(isZero(m_velocity) /\ isZero(listenerVelocity))

\* the shift of the call before fixNANs
RawShift == rawDopplerShift(m_position, m_velocity, listenerPosition, listenerVelocity, dopplerFactor, speedOfSound)

\* C16 as stated: dopplerRate returns exactly 1.0 whenever doppler_factor
\* <= 0, whenever the source is at the listener position, and whenever both
\* velocities are zero; a NaN/Inf intermediate shift is replaced by 1.0.
C16_AsStated ==
    DopplerRateCalled =>
        /\ dopplerFactor <= 0 => dopplerShift = Double(1, 1)
        /\ m_position = listenerPosition => dopplerShift = Double(1, 1)
        /\ (isZero(m_velocity) /\ isZero(listenerVelocity)) => dopplerShift = Double(1, 1)
        /\ (ShiftComputed /\ (isnan(RawShift) \/ isinf(RawShift))) => dopplerShift = Double(1, 1)

\* C16, what the source does: dopplerRate returns exactly 1.0 whenever the
\* Doppler factor is <= 0 and whenever both velocities are zero.  With a
\* positive factor and a source or a listener that moves, a source at the
\* position of the listener makes the shift NaN, and a shift that is NaN or
\* Inf is replaced by 0.0 and then raised to 0.125 by the clamp.
C16_DopplerRateOne ==
    DopplerRateCalled =>
        /\ dopplerFactor <= 0 => dopplerShift = Double(1, 1)
        /\ (isZero(m_velocity) /\ isZero(listenerVelocity)) => dopplerShift = Double(1, 1)
        /\ (ShiftComputed /\ m_position = listenerPosition) => (isnan(RawShift) /\ dopplerShift = Double(1, 8))
        /\ (ShiftComputed /\ (isnan(RawShift) \/ isinf(RawShift))) => dopplerShift = Double(1, 8)

\* a moving source at the position of the listener: the call returned 0.125
C16_Witness ==
    /\ DopplerRateCalled
    /\ ShiftComputed
    /\ m_position = listenerPosition
    /\ dopplerShift = Double(1, 8)

\* the scenario of the claim: the listener at rest at the origin, the source
\* at (1, 0, 0) with velocity (1e9, 0, 0), Doppler factor 1, speed of sound 340
LiteralScenario ==
    /\ listenerVelocity = Point(0, 0, 0)
    /\ m_velocity = Point(1000000000, 0, 0)
    /\ m_position = Point(1, 0, 0)
    /\ listenerPosition = Point(0, 0, 0)
    /\ dopplerFactor = 1
    /\ speedOfSound = 340

\* the value dopplerRate returned lies in [0.125, 16]
Clamped ==
    /\ ~isnan(dopplerShift)
    /\ ~Less(dopplerShift, Double(1, 8))
    /\ ~Less(Double(16, 1), dopplerShift)

\* C17 as stated: the Doppler shift is clamped to [0.125, 16] for all
\* velocities, and in the scenario of the claim dopplerRate returns 16.0.
C17_AsStated ==
    DopplerRateCalled => (Clamped /\ (LiteralScenario => dopplerShift = Double(16, 1)))

\* C17: the Doppler shift is clamped to [0.125, 16] for all velocities, and
\* in the scenario of the claim, where the source moves away from the
\* listener, dopplerRate returns 0.125; it returns 16.0 when it is the
\* listener that moves at that velocity towards the source at rest.
C17_DopplerClamped ==
    DopplerRateCalled =>
        /\ Clamped
        /\ LiteralScenario => dopplerShift = Double(1, 8)
        /\ (/\ listenerVelocity = Point(1000000000, 0, 0)
            /\ m_velocity = Point(0, 0, 0)
            /\ m_position = Point(1, 0, 0)
            /\ listenerPosition = Point(0, 0, 0)
            /\ dopplerFactor = 1
            /\ speedOfSound = 340) => dopplerShift = Double(16, 1)

\* dopplerRate was called in the scenario of the claim
C17_Witness ==
    /\ DopplerRateCalled
    /\ LiteralScenario
    /\ dopplerShift = Double(1, 8)
    /\ ~isnan(RawShift)
    /\ ~isinf(RawShift)

(***************************************************************************)
(* The disabled flag, checked in Spec.                                     *)
(***************************************************************************)
\* node n is one that disableOutputsIfNecessary would disable
Disableable(n) ==
    m_connectionRefCount[n] <= 1 /\ ~IsTailSensitive(m_nodeType[n])

\* C18 as stated: in every reachable state and for every node, the disabled
\* flag is true if and only if connection_ref <= 1 and the node type is not
\* convolver or delay.
C18_AsStated ==
    \A n \in Nodes : m_isDisabled[n] <=> Disableable(n)

\* C18: in every reachable state and for every node, a disabled flag that
\* is true implies connection_ref <= 1 and a node type that is not
\* convolver or delay.  The converse does not hold: a node is created
\* enabled with connection_ref = 0 and stays enabled when it receives its
\* first connection; only a connection deref that ends with connection_ref
\* = 0 and a host handle left, or the disabling of the one node that feeds
\* it, sets the flag.
C18_DisabledImpliesFewConnections ==
    \A n \in Nodes : m_isDisabled[n] => Disableable(n)

\* the source that fed the effect has been disabled and the effect with it,
\* its one connection left, while the destination, which never had a
\* connection, is enabled
C18_Witness ==
    /\ m_isDisabled[SourceNode]
    /\ m_isDisabled[EffectNode]
    /\ m_connectionRefCount[EffectNode] = 1
    /\ Disableable(EffectNode)
    /\ ~m_isDisabled[DestinationNode]
    /\ m_connectionRefCount[DestinationNode] = 0
    /\ m_connectionCount = 1

(***************************************************************************)
(* The threads under fair scheduling: an operation of the control thread   *)
(* that holds the graph lock runs to its unlock, and the audio thread,     *)
(* which tries the lock at the top of every quantum, finds it free in one  *)
(* of the quanta in which the control thread keeps releasing it.           *)
(***************************************************************************)
\* the host connects the source to the destination, starts it and releases
\* its handle of it; the audio thread ends the playing and renders
NextFair ==
    \/ lock
    \/ connect(SourceNode, DestinationNode, 0, 0) /\ UNCHANGED <<history, pannerVars>>
    \/ release(SourceNode)
    \/ refNode(SourceNode)
    \/ mainHandleDeferred
    \/ mainDeleteMarkedNodes
    \/ audioDeref(SourceNode)
    \/ handlePreRenderTasks

\* an operation of the control thread ends and releases the graph lock
controlUnlocks ==
    /\ graphOwner = "main"
    /\ NextFair
    /\ graphOwner' = "none"

SpecFair == Init /\ [][NextFair]_vars /\ WF_vars(controlUnlocks) /\ SF_vars(handlePreRenderTasks)

(***************************************************************************)
(* The deferred derefs, checked in SpecFair.                               *)
(***************************************************************************)
\* the audio thread drops the connection ref it holds on node n
AudioDerefStep(n) ==
    n \in playingNodes /\ n \notin playingNodes'

\* the deferred queue is drained
DrainStep ==
    deferredFinishDerefList # <<>> /\ deferredFinishDerefList' = <<>>

\* how often node n is in the deferred queue
TimesDeferred(n) ==
    Cardinality({k \in 1..Len(deferredFinishDerefList) : deferredFinishDerefList[k] = n})

\* C19: a connection deref of the audio thread whose tryLock of the graph
\* lock failed puts the node on the deferred queue and changes no count; the
\* queue only grows by such derefs and is only emptied as a whole, each
\* entry then taking exactly 1 from the connection ref count of its node,
\* besides the derefs of the connections removed in consequence; the deref
\* of the audio thread is enabled whoever holds the lock; and a queue that
\* is not empty is eventually drained.
C19_DeferredDerefCompleted ==
    /\ [][\A n \in Nodes :
              (AudioDerefStep(n) /\ graphOwner = "main") =>
                  /\ deferredFinishDerefList' = Append(deferredFinishDerefList, n)
                  /\ m_connectionRefCount' = m_connectionRefCount
                  /\ m_normalRefCount' = m_normalRefCount
                  /\ graphOwner' = "main"]_vars
    /\ [][deferredFinishDerefList' # deferredFinishDerefList =>
              \/ DrainStep
              \/ \E n \in Nodes : AudioDerefStep(n) /\ graphOwner = "main"]_vars
    /\ [][DrainStep =>
              /\ graphOwner # "main" \/ graphOwner' = "none"
              /\ \A n \in Nodes :
                     m_connectionRefCount'[n] = m_connectionRefCount[n] - TimesDeferred(n) - Cardinality(RemovedInto(n))]_vars
    /\ [](\A n \in playingNodes : ENABLED audioDeref(n))
    /\ (deferredFinishDerefList # <<>>) ~> (deferredFinishDerefList = <<>>)

\* two derefs of the source wait in the deferred queue, the two connection
\* refs still counted
C19_Witness ==
    /\ deferredFinishDerefList = <<SourceNode, SourceNode>>
    /\ m_connectionRefCount[SourceNode] = 2
    /\ SourceNode \notin playingNodes
    /\ graphOwner = "main"

(***************************************************************************)
(* The graph lock, checked in Spec.  An operation of the control thread    *)
(* is one step that ends with the lock released; a step that leaves the    *)
(* lock with the control thread is a step of the audio thread, whose       *)
(* tryLock has failed.                                                     *)
(***************************************************************************)
\* what the consequences of a ref count that reaches zero write: the
\* disabled flags, the connections and the deletion list
structure == <<m_isDisabled, outputEnabled, connections, disabledConnections, m_isMarkedForDeletion, nodesToDelete, liveNodes>>

\* C20: the structural consequences of a ref count reaching zero (disabling
\* the outputs of the node, disconnecting them, placing the node on the
\* deletion list) are executed only by a thread that holds the graph lock:
\* a step taken while the control thread keeps the lock, which is a deref
\* of the audio thread, changes none of them and no ref count.
C20_ConsequencesUnderLock ==
    [][(graphOwner = "main" /\ graphOwner' = "main") =>
           /\ UNCHANGED structure
           /\ UNCHANGED <<m_normalRefCount, m_connectionRefCount>>]_vars

\* the control thread holds the lock and the deref that would disable the
\* outputs of the source waits in the deferred queue
C20_Witness ==
    /\ graphOwner = "main"
    /\ deferredFinishDerefList = <<SourceNode>>
    /\ SourceNode \notin playingNodes
    /\ m_normalRefCount[SourceNode] = 1
    /\ m_connectionRefCount[SourceNode] = 1
    /\ ~m_isDisabled[SourceNode]


\* ---------------------------------------------------------------------
\* C21: dropping a normal ref never disables

\* the step in which a normal ref of node n is dropped
NormalDerefStep(n) ==
    m_normalRefCount'[n] = m_normalRefCount[n] - 1

\* C21: a step that decrements the normal ref count of a node leaves the
\* disabled flag of that node and the enabled state of its outputs as they
\* were, whatever its connection ref count is, zero included
C21_NormalDerefNeverDisables ==
    [][\A n \in Nodes :
          NormalDerefStep(n) =>
              /\ m_isDisabled'[n] = m_isDisabled[n]
              /\ outputEnabled'[n] = outputEnabled[n]]_vars

\* the effect node, once connected, has dropped its last normal ref while
\* its connection ref count was zero: it is marked for deletion, its
\* disabled flag is clear and its output is enabled
C21_Witness ==
    /\ m_normalRefCount[EffectNode] = 0
    /\ m_connectionRefCount[EffectNode] = 0
    /\ m_isMarkedForDeletion[EffectNode]
    /\ ~m_isDisabled[EffectNode]
    /\ outputEnabled[EffectNode]
    /\ m_connectionCount > 0


\* ---------------------------------------------------------------------
\* C22: a connection ref re-enables a disabled node

\* the step in which node n takes a connection ref
ConnectionRefStep(n) ==
    m_connectionRefCount'[n] = m_connectionRefCount[n] + 1

\* C22: right after a step in which a disabled node takes a connection ref
\* (a successful connect into one of its inputs), its disabled flag is
\* false, every output it has is enabled and none of the connections of its
\* outputs is left out of rendering
C22_ConnectionRefEnables ==
    [][\A n \in Nodes :
          ConnectionRefStep(n) /\ m_isDisabled[n] =>
              /\ ~m_isDisabled'[n]
              /\ numberOfOutputs(n) > 0 => outputEnabled'[n]
              /\ \A c \in disabledConnections' : c[1] # n]_vars

\* the state right after a successful connect into a node that was alive
\* on its host handle alone, with connection ref 0, and disabled: the node
\* is enabled again and its connection to the destination, left out of
\* rendering before the connect, is rendered
C22_Witness ==
    /\ roundTrip.phase = "connected"
    /\ roundTrip.after = <<Graph>>
    /\ lastCall.op = "connect"
    /\ lastCall.dest = EffectNode
    /\ ec = "OK"
    /\ Before.disabled[EffectNode]
    /\ Before.conn[EffectNode] = 0
    /\ Before.normal[EffectNode] > 0
    /\ <<EffectNode, 0, DestinationNode, 0>> \in connections \ Before.rendering
    /\ ~m_isDisabled[EffectNode]
    /\ outputEnabled[EffectNode]
    /\ <<EffectNode, 0, DestinationNode, 0>> \in RenderingEdges(Graph)


\* ---------------------------------------------------------------------
\* C23: processIfNecessary terminates on graphs with feedback cycles

\* the step of one render quantum
RenderStep ==
    currentSampleFrame' = currentSampleFrame + 1

\* the body of processIfNecessary of node n was entered in the quantum of
\* the step: the node was reached and is initialized
Entered(n) ==
    pulls'[n] >= 1 /\ m_isInitialized[n]

\* the rendering connections of the outputs of node n that a node whose
\* body was entered pulls
PulledConnections(n) ==
    {c \in RenderingEdges(Graph) : c[1] = n /\ Entered(c[3])}

\* the feedback cycle of the model: the effect feeds its own input
FeedbackCycle ==
    <<EffectNode, 0, EffectNode, 0>> \in RenderingEdges(Graph)

MaxWalkDepth == 4

\* the node that is the panner
PannerNode == EffectNode

\* what a call that does not fit on the stack leaves: the thread is gone
StackOverflow == "stack overflow"

\* the nodes whose outputs have a rendering connection into an input of
\* node n: input->renderingOutput(j)->node() for every input i and every j
UpstreamOf(n) ==
    {c[1] : c \in {x \in RenderingEdges(Graph) : x[3] = n}}

\* the test of the node type in notifyAudioSourcesConnectedToNode
IsBufferSource(n) ==
    m_nodeType[n] = "NodeTypeAudioBufferSource"

RECURSIVE Reaches(_, _, _)
\* the nodes reached from the nodes of S in at most k levels, going
\* upstream from the nodes of the set through
Reaches(S, through, k) ==
    IF k = 0 THEN S
    ELSE Reaches(S \cup UNION {UpstreamOf(n) : n \in S \cap through}, through, k - 1)

\* the nodes that are not buffer sources: the walk goes on from them
WalkedThrough == {n \in Nodes : ~IsBufferSource(n)}

\* the nodes the walk of the panner calls notifyAudioSourcesConnectedToNode on
Walked == Reaches({PannerNode}, WalkedThrough, Cardinality(Nodes))

\* a feedback cycle is reachable upstream of the panner: a node the walk
\* reaches is upstream of itself through nodes that are not buffer sources
CycleUpstream ==
    \E n \in Walked \cap WalkedThrough :
        n \in Reaches(UpstreamOf(n), WalkedThrough, Cardinality(Nodes))

\* the pull of the destination reaches node n: processIfNecessary goes
\* upstream from the initialized nodes
IsPulled(n) ==
    n \in Reaches({DestinationNode}, {m \in Nodes : m_isInitialized[m]}, Cardinality(Nodes))

\* a call of notifyAudioSourcesConnectedToNode(node) that has not returned
\* and the connections its loops have not visited yet
Frame(n) ==
    [node |-> n, pending |-> IF IsBufferSource(n) THEN {} ELSE {c \in RenderingEdges(Graph) : c[3] = n}]

OverflowFrame ==
    [node |-> StackOverflow, pending |-> {}]

\* PannerNode::pullInputs up to the call of
\* notifyAudioSourcesConnectedToNode(this); AudioNode::pullInputs follows
\* the return of that call
pannerPullInputs ==
    /\ walkStack = <<>>
    /\ IsPulled(PannerNode)
    /\ IF pannerConnectionCount # m_connectionCount
       THEN /\ pannerConnectionCount' = m_connectionCount
            /\ walkStack' = <<Frame(PannerNode)>>
       ELSE UNCHANGED <<pannerConnectionCount, walkStack>>
    /\ UNCHANGED <<m_nodeType, m_isInitialized, graphVars, graphOwner, ec, history, renderVars>>
    /\ UNCHANGED <<pannerIsInitialized, m_panningModel, m_panner, m_distanceModel, m_position, m_velocity, pannersCreated, listenerPosition, listenerVelocity, dopplerFactor, speedOfSound, pannerCall, dopplerShift, pannerSources>>

\* one step of the innermost call of
\* PannerNode::notifyAudioSourcesConnectedToNode: a buffer source is given
\* the panner and the call returns; another node calls the function on the
\* node of the next rendering connection of its inputs, and returns when
\* there is none left
notifyAudioSourcesConnectedToNode ==
    /\ walkStack # <<>>
    /\ LET depth == Len(walkStack)
           top == walkStack[depth]
           callers == SubSeq(walkStack, 1, depth - 1)
       IN
       /\ top.node # StackOverflow
       /\ IF IsBufferSource(top.node)
          THEN /\ pannerSources' = pannerSources \cup {top.node}
               /\ walkStack' = callers
          ELSE IF top.pending = {}
          THEN /\ walkStack' = callers
               /\ UNCHANGED pannerSources
          ELSE \E c \in top.pending :
                  /\ walkStack' = Append(Append(callers, [top EXCEPT !.pending = @ \ {c}]),
                                         IF depth < MaxWalkDepth THEN Frame(c[1]) ELSE OverflowFrame)
                  /\ UNCHANGED pannerSources
    /\ UNCHANGED <<m_nodeType, m_isInitialized, graphVars, graphOwner, ec, history, renderVars>>
    /\ UNCHANGED <<pannerIsInitialized, m_panningModel, m_panner, m_distanceModel, m_position, m_velocity, pannersCreated, listenerPosition, listenerVelocity, dopplerFactor, speedOfSound, pannerCall, dopplerShift, pannerConnectionCount>>

\* a new graph whose effect node is a panner and whose first node is a
\* buffer source or a delay
InitWalk ==
    /\ m_nodeType \in {t \in [Nodes -> NodeTypes] : t[SourceNode] \in {"NodeTypeAudioBufferSource", "NodeTypeDelay"} /\ t[PannerNode] = "NodeTypePanner" /\ t[DestinationNode] = "NodeTypeDestination"}
    /\ InitMembers
    /\ PannerNodeInit
    /\ m_distanceModel = ModelInverse
    /\ AudioListenerInit

NextWalk ==
    \/ \E n \in {SourceNode, PannerNode}, d \in Nodes : walkStack = <<>> /\ connect(n, d, 0, 0) /\ UNCHANGED <<history, pannerVars>>
    \/ \E n \in {SourceNode, PannerNode} : walkStack = <<>> /\ disconnect(n, 0) /\ UNCHANGED <<history, pannerVars>>
    \/ pannerPullInputs
    \/ notifyAudioSourcesConnectedToNode

\* the audio thread, once in the walk, takes its next step
SpecWalk == InitWalk /\ [][NextWalk]_vars /\ WF_vars(notifyAudioSourcesConnectedToNode)

\* ---------------------------------------------------------------------
\* C24: the upstream walk of the panner

\* a walk is running
Walking == walkStack # <<>>

\* the walk ran out of stack
Overflowed ==
    Walking /\ walkStack[Len(walkStack)].node = StackOverflow

\* the outermost call returns in this step
WalkReturns ==
    Walking /\ walkStack' = <<>>

\* C24 as stated: the walk that the first pull after a change of the
\* connection count of the context starts terminates on every graph that
\* connect builds, and when it has returned the count the panner saw last
\* is the connection count of the context.
C24_AsStated ==
    Walking ~> (walkStack = <<>> /\ pannerConnectionCount = m_connectionCount)

\* C24: the walk terminates exactly on the graphs in which no feedback
\* cycle is reachable upstream of the panner: without such a cycle every
\* walk returns and never runs out of stack, and when it returns the count
\* the panner saw last is the connection count of the context; with such a
\* cycle no walk returns.
C24_WalkTerminatesWithoutCycle ==
    /\ (Walking /\ ~CycleUpstream) ~> (walkStack = <<>>)
    /\ [](Overflowed => CycleUpstream)
    /\ [][WalkReturns => pannerConnectionCount' = m_connectionCount']_vars
    /\ [][Walking /\ CycleUpstream => walkStack' # <<>>]_vars

\* the walk on a graph in which the delay feeds the panner and its own
\* input: the count of the panner is that of the context and the calls
\* have run out of stack
C24_Witness ==
    /\ m_nodeType[SourceNode] = "NodeTypeDelay"
    /\ <<SourceNode, 0, SourceNode, 0>> \in RenderingEdges(Graph)
    /\ <<SourceNode, 0, PannerNode, 0>> \in RenderingEdges(Graph)
    /\ <<PannerNode, 0, DestinationNode, 0>> \in RenderingEdges(Graph)
    /\ pannerConnectionCount = m_connectionCount
    /\ Overflowed

====
